---- MODULE Spec2Model ----
(***************************************************************************)
(* Survey Data Analyzer: the statistical analysis engine                   *)
(* (SurveyAnalyzer/stats_analyzer.py) over the datasets that the loader's  *)
(* cleaning step (SurveyAnalyzer/data_loader.py) produces.                 *)
(*                                                                         *)
(* A Python str is a sequence of one-character strings, so that strip(),   *)
(* lower(), float() and the code-point order used by sorted() are computed *)
(* and not assumed.  None is the one-element tuple <<"None">>, which no    *)
(* str equals.  A float is an exact rational [n, d]; the two places where  *)
(* the range of a double decides the outcome (a numeral far beyond the     *)
(* square root of the largest double) are modelled by the value Huge.      *)
(***************************************************************************)
EXTENDS Integers, Sequences, FiniteSets, TLC

VARIABLES
    survey_data,    \* StatsAnalyzer.survey_data: the records, in file order
    columns,        \* StatsAnalyzer.columns: the keys of the first record
    call,           \* the operation called last, with its arguments
    result,         \* what that call returned, or the exception it raised
    answers         \* history: the first calls made and what each handed back

vars == <<survey_data, columns, call, result, answers>>

(***************************************************************************)
(* Bounds of the model.                                                    *)
(***************************************************************************)
\* records of a dataset drawn cell by cell
MaxRecords == 3

\* copies of one kind of record in a tallied dataset
MaxCount == 5

\* length of the sequences given to _calculate_correlation
MaxPairs == 3

\* largest chi-square statistic given to _chi_square_p_value, in halves
MaxStatistic == 24

\* largest df given to _chi_square_p_value
MaxDf == 3

\* words of a text given to analyze_text
MaxWords == 5

\* copies of one kind of record in a dataset given to the pattern detector
MaxCopies == 20

\* the calls made on an analyzer of which the history is kept
MaxNoted == 3

\* rows of a table given to _clean_and_validate_data
MaxRawRows == 2

(***************************************************************************)
(* Python values: None, str, and the operations of str the code uses.      *)
(***************************************************************************)
None == <<"None">>

Digits == <<"0", "1", "2", "3", "4", "5", "6", "7", "8", "9">>

Upper == <<"A", "B", "C", "D", "E", "F", "G", "H", "I", "J", "K", "L", "M",
           "N", "O", "P", "Q", "R", "S", "T", "U", "V", "W", "X", "Y", "Z">>

Lower == <<"a", "b", "c", "d", "e", "f", "g", "h", "i", "j", "k", "l", "m",
           "n", "o", "p", "q", "r", "s", "t", "u", "v", "w", "x", "y", "z">>

Whitespace == {" ", "\t", "\n", "\r", "\f"}

Range(seq) == {seq[i] : i \in 1..Len(seq)}

IndexOf(seq, c) == CHOOSE i \in 1..Len(seq) : seq[i] = c

\* ord(c): the code point of a character (ASCII).
Ord(c) ==
    IF c \in Range(Digits) THEN 47 + IndexOf(Digits, c)
    ELSE IF c \in Range(Upper) THEN 64 + IndexOf(Upper, c)
    ELSE IF c \in Range(Lower) THEN 96 + IndexOf(Lower, c)
    ELSE CASE c = "\t" -> 9
           [] c = "\n" -> 10
           [] c = "\f" -> 12
           [] c = "\r" -> 13
           [] c = " " -> 32
           [] c = "'" -> 39
           [] c = "+" -> 43
           [] c = "-" -> 45
           [] c = "." -> 46
           [] c = "/" -> 47
           [] c = ":" -> 58
           [] c = "_" -> 95

\* str.lower() on one character.
LowerChar(c) == IF c \in Range(Upper) THEN Lower[IndexOf(Upper, c)] ELSE c

\* str.lower()
StrLower(s) == [i \in 1..Len(s) |-> LowerChar(s[i])]

RECURSIVE LStrip(_)
LStrip(s) ==
    IF s # <<>> /\ s[1] \in Whitespace THEN LStrip(Tail(s)) ELSE s

RECURSIVE RStrip(_)
RStrip(s) ==
    IF s # <<>> /\ s[Len(s)] \in Whitespace
    THEN RStrip(SubSeq(s, 1, Len(s) - 1))
    ELSE s

\* str.strip()
Strip(s) == RStrip(LStrip(s))

\* str(v): the text of a value; str(None) is the four characters None.
Str(v) == IF v = None THEN <<"N", "o", "n", "e">> ELSE v

\* a < b on str: lexicographic by code point, a proper prefix first.
RECURSIVE StrLess(_, _)
StrLess(a, b) ==
    IF a = <<>> THEN b # <<>>
    ELSE IF b = <<>> THEN FALSE
    ELSE IF a[1] = b[1] THEN StrLess(Tail(a), Tail(b))
    ELSE Ord(a[1]) < Ord(b[1])

\* a variant of sorted(): descending order, as sorted(..., reverse=True)
RECURSIVE SortedDescending(_)
SortedDescending(S) ==
    IF S = {} THEN <<>>
    ELSE LET m == CHOOSE x \in S : \A y \in S \ {x} : StrLess(y, x)
         IN  <<m>> \o SortedDescending(S \ {m})

\* sorted(list(S)) for a set of str.
RECURSIVE SortedStrs(_)
SortedStrs(S) ==
    IF S = {} THEN <<>>
    ELSE LET m == CHOOSE x \in S : \A y \in S \ {x} : StrLess(x, y)
         IN  <<m>> \o SortedStrs(S \ {m})

\* row.get(col): the value under a key, None when the key is missing.
Get(row, col) == IF col \in DOMAIN row THEN row[col] ELSE None

\* row.get(col, ''): the value under a key, '' when the key is missing.
GetOrEmpty(row, col) == IF col \in DOMAIN row THEN row[col] ELSE <<>>

\* val is not None and str(val).strip()
NonEmpty(v) == v # None /\ Strip(Str(v)) # <<>>

(***************************************************************************)
(* DataLoader._clean_and_validate_data: the value of every cell is cleaned *)
(* and the rows that fail _validate_row are dropped.                       *)
(***************************************************************************)
NaWords == {<<"n", "a">>, <<"n", "/", "a">>, <<"n", "u", "l", "l">>, <<"n", "o", "n", "e">>}

CleanValue(value) ==
    IF value = None \/ value = <<>> THEN None
    ELSE IF StrLower(Strip(Str(value))) \in NaWords THEN None
    ELSE Strip(Str(value))

ValidGenders == {<<"m", "a", "l", "e">>, <<"f", "e", "m", "a", "l", "e">>, <<"m">>, <<"f">>,
                 <<"o", "t", "h", "e", "r">>,
                 <<"p", "r", "e", "f", "e", "r", " ", "n", "o", "t", " ", "t", "o", " ", "s", "a", "y">>}

\* int(s) for a str: optional sign and decimal digits, surrounding whitespace
\* ignored; ok is FALSE when int() raises ValueError.
RECURSIVE DigitsValue(_, _)
DigitsValue(s, acc) ==
    IF s = <<>> THEN acc ELSE DigitsValue(Tail(s), 10 * acc + (Ord(s[1]) - 48))

AllDigits(s) == s # <<>> /\ \A i \in 1..Len(s) : s[i] \in Range(Digits)

ParseInt(s) ==
    LET t == Strip(s)
        body == IF t # <<>> /\ t[1] \in {"+", "-"} THEN Tail(t) ELSE t
    IN  IF ~AllDigits(body) THEN [ok |-> FALSE, value |-> 0]
        ELSE IF t[1] = "-" THEN [ok |-> TRUE, value |-> 0 - DigitsValue(body, 0)]
        ELSE [ok |-> TRUE, value |-> DigitsValue(body, 0)]

ValidateRow(row) ==
    /\ Cardinality(DOMAIN row) >= 2
    /\ ("age" \in DOMAIN row /\ row["age"] # None) =>
           /\ ParseInt(row["age"]).ok
           /\ ParseInt(row["age"]).value >= 0
           /\ ParseInt(row["age"]).value <= 120
    /\ ("gender" \in DOMAIN row /\ row["gender"] # None) =>
           StrLower(Str(row["gender"])) \in ValidGenders

CleanRow(row) == [key \in DOMAIN row |-> CleanValue(row[key])]

CleanAndValidateData(data) ==
    SelectSeq([i \in 1..Len(data) |-> CleanRow(data[i])], ValidateRow)

(***************************************************************************)
(* Python floats as exact rationals [n, d, e]: the value (n / d) * 10^e,   *)
(* in lowest terms with d > 0.  e is 0 except for a numeral of HugeExp or  *)
(* more decimal orders of magnitude, which is kept unexpanded: every       *)
(* non-zero difference of such a value from any other value of the model   *)
(* exceeds 10^154, so its square is beyond the largest double (about       *)
(* 1.8 * 10^308) and float ** raises OverflowError.                        *)
(***************************************************************************)
HugeExp == 155

Abs(a) == IF a < 0 THEN 0 - a ELSE a

RECURSIVE Gcd(_, _)
Gcd(a, b) == IF b = 0 THEN a ELSE Gcd(b, a % b)

Rat(n, d) ==
    LET g == Gcd(Abs(n), Abs(d))
        s == IF d < 0 THEN 0 - 1 ELSE 1
    IN  [n |-> s * (n \div g), d |-> s * (d \div g), e |-> 0]

FromInt(i) == Rat(i, 1)

Zero == FromInt(0)

One == FromInt(1)

RAdd(a, b) == Rat(a.n * b.d + b.n * a.d, a.d * b.d)

RSub(a, b) == Rat(a.n * b.d - b.n * a.d, a.d * b.d)

RMul(a, b) == Rat(a.n * b.n, a.d * b.d)

RDiv(a, b) == Rat(a.n * b.d, a.d * b.n)

RLess(a, b) == a.n * b.d < b.n * a.d

RLeq(a, b) == a.n * b.d <= b.n * a.d

\* max(a, b)
RMax(a, b) == IF RLess(a, b) THEN b ELSE a

\* sum(seq) of floats
RECURSIVE RSum(_)
RSum(seq) == IF seq = <<>> THEN Zero ELSE RAdd(seq[1], RSum(Tail(seq)))

\* sum(seq) of ints
RECURSIVE SumInts(_)
SumInts(seq) == IF seq = <<>> THEN 0 ELSE seq[1] + SumInts(Tail(seq))

IsHuge(v) == v.e >= HugeExp

(***************************************************************************)
(* What a call hands back: a value, or an exception.                       *)
(***************************************************************************)
Return(v) == [kind |-> "return", value |-> v]

Raise(e) == [kind |-> "raise", exc |-> e]

(***************************************************************************)
(* StatsAnalyzer.cross_tabulate                                            *)
(***************************************************************************)
EmptyStr == <<>>

\* the set values1 / values2: the stripped text of the non-empty values of a column
ColumnValues(data, col) ==
    {Strip(Str(Get(data[i], col))) :
        i \in {j \in 1..Len(data) : NonEmpty(Get(data[j], col))}}

\* a variant of the inner loop: the test on col2 is left out
CellCountByRow(data, col1, col2, val1, val2) ==
    Cardinality({i \in 1..Len(data) :
        Strip(Str(GetOrEmpty(data[i], col1))) = val1})

\* the inner loop: the records whose two stripped texts equal val1 and val2
CellCount(data, col1, col2, val1, val2) ==
    Cardinality({i \in 1..Len(data) :
        /\ Strip(Str(GetOrEmpty(data[i], col1))) = val1
        /\ Strip(Str(GetOrEmpty(data[i], col2))) = val2})

\* a data row: the label, then the count under each value of the header
DataRow(data, col1, col2, val1, values2) ==
    <<val1>> \o [j \in 1..Len(values2) |-> CellCount(data, col1, col2, val1, values2[j])]

\* the header row, then the data rows
TableOf(data, col1, col2, values1, values2) ==
    <<(<<EmptyStr>> \o values2)>> \o
        [i \in 1..Len(values1) |-> DataRow(data, col1, col2, values1[i], values2)]

\* a variant of the validation: `and` where the code has `or`
CrossTabulateEitherColumn(data, cols, col1, col2) ==
    IF col1 \notin Range(cols) /\ col2 \notin Range(cols)
    THEN Raise("ValueError: Column not found")
    ELSE Return(TableOf(data, col1, col2,
                        SortedStrs(ColumnValues(data, col1)),
                        SortedStrs(ColumnValues(data, col2))))

CrossTabulate(data, cols, col1, col2) ==
    IF col1 \notin Range(cols) \/ col2 \notin Range(cols)
    THEN Raise("ValueError: Column not found")
    ELSE Return(TableOf(data, col1, col2,
                        SortedStrs(ColumnValues(data, col1)),
                        SortedStrs(ColumnValues(data, col2))))

(***************************************************************************)
(* StatsAnalyzer.chi_square_test and its helpers                           *)
(***************************************************************************)
\* row_totals
RowTotals(observed) == [i \in 1..Len(observed) |-> SumInts(observed[i])]

\* col_totals
ColTotals(observed) ==
    [j \in 1..Len(observed[1]) |->
        SumInts([i \in 1..Len(observed) |-> observed[i][j]])]

ExpectedFrom(row_totals, col_totals, total) ==
    [i \in 1..Len(row_totals) |-> [j \in 1..Len(col_totals) |->
        IF total > 0 THEN Rat(row_totals[i] * col_totals[j], total) ELSE Zero]]

ExpectedFrequencies(observed) ==
    IF observed = <<>> \/ observed[1] = <<>> THEN <<>>
    ELSE ExpectedFrom(RowTotals(observed), ColTotals(observed),
                      SumInts(RowTotals(observed)))

\* a variant of the approximation: the branch for a statistic below df is
\* left out
ChiSquarePValueOneBranch(chi_square, df) ==
    IF df <= 0 THEN One
    ELSE RMax(Zero, RSub(One, RDiv(chi_square, FromInt(df * 10))))

\* a variant of the approximation: the value is not held at 0.0
ChiSquarePValueUnclipped(chi_square, df) ==
    IF df <= 0 THEN One
    ELSE IF RLess(chi_square, FromInt(df))
         THEN RSub(One, RDiv(chi_square, FromInt(df * 2)))
         ELSE RSub(One, RDiv(chi_square, FromInt(df * 10)))

\* a variant of the approximation: the value falls to 0 at 5 * df
ChiSquarePValueSteep(chi_square, df) ==
    IF df <= 0 THEN One
    ELSE IF RLess(chi_square, FromInt(df))
         THEN RSub(One, RDiv(chi_square, FromInt(df * 2)))
         ELSE RMax(Zero, RSub(One, RDiv(chi_square, FromInt(df * 5))))

ChiSquarePValue(chi_square, df) ==
    IF df <= 0 THEN One
    ELSE IF RLess(chi_square, FromInt(df))
         THEN RSub(One, RDiv(chi_square, FromInt(df * 2)))
         ELSE RMax(Zero, RSub(One, RDiv(chi_square, FromInt(df * 10))))

InsufficientData ==
    [chi_square |-> Zero, p_value |-> One, df |-> 0, significant |-> FALSE,
     error |-> "Insufficient data for chi-square test"]

\* a variant of the threshold: 0.5
AlphaTenfold == Rat(5, 10)

\* the 0.05 of `significant = p_value < 0.05`
Alpha == Rat(5, 100)

\* one cell's share of the statistic
CellTerm(o, e) ==
    IF RLess(Zero, e)
    THEN RDiv(RMul(RSub(FromInt(o), e), RSub(FromInt(o), e)), e)
    ELSE Zero

\* the statistic: the sum over the cells with expected > 0
ChiSquareStatistic(observed, expected) ==
    RSum([k \in 1..(Len(observed) * Len(observed[1])) |->
            CellTerm(observed[((k - 1) \div Len(observed[1])) + 1][((k - 1) % Len(observed[1])) + 1],
                     expected[((k - 1) \div Len(observed[1])) + 1][((k - 1) % Len(observed[1])) + 1])])

\* too few rows or columns in the table for a test
TooFewCategories(crosstab) == Len(crosstab) < 2 \/ Len(crosstab[1]) < 2

\* the result dictionary of a test that was carried out
TestResult(observed, expected, chi_square, df, p_value) ==
    [chi_square |-> chi_square,
     p_value |-> p_value,
     df |-> df,
     significant |-> RLess(p_value, Alpha),
     observed |-> observed,
     expected |-> expected]

TestOfStatistic(observed, expected, chi_square, df) ==
    TestResult(observed, expected, chi_square, df, ChiSquarePValue(chi_square, df))

TestOfFrequencies(observed, expected) ==
    TestOfStatistic(observed, expected, ChiSquareStatistic(observed, expected),
                    (Len(observed) - 1) * (Len(observed[1]) - 1))

\* sum(sum(row) for row in observed)
TotalObservations(observed) ==
    SumInts([i \in 1..Len(observed) |-> SumInts(observed[i])])

TestOfObserved(observed) ==
    IF TotalObservations(observed) < 5 THEN Return(InsufficientData)
    ELSE Return(TestOfFrequencies(observed, ExpectedFrequencies(observed)))

\* the table without its header row and its label column
Observed(crosstab) ==
    [i \in 1..(Len(crosstab) - 1) |->
        [j \in 1..(Len(crosstab[i + 1]) - 1) |-> crosstab[i + 1][j + 1]]]

TestOfCrosstab(crosstab) ==
    IF TooFewCategories(crosstab) THEN Return(InsufficientData)
    ELSE TestOfObserved(Observed(crosstab))

\* cross_tabulate's exception passes through chi_square_test
TestOfTable(tab) == IF tab.kind = "raise" THEN tab ELSE TestOfCrosstab(tab.value)

ChiSquareTest(data, cols, col1, col2) ==
    TestOfTable(CrossTabulate(data, cols, col1, col2))

(***************************************************************************)
(* float(s) for a str: [sign] digits [. digits] [e [sign] digits], with    *)
(* surrounding whitespace ignored; ok is FALSE when float() raises         *)
(* ValueError.  (inf, nan and digit-group underscores are not in the       *)
(* numerals of the model.)                                                 *)
(***************************************************************************)
RECURSIVE Pow10(_)
Pow10(k) == IF k = 0 THEN 1 ELSE 10 * Pow10(k - 1)

\* the first position of a character of cs in s, 0 when there is none
FirstOf(s, cs) ==
    IF \E i \in 1..Len(s) : s[i] \in cs
    THEN CHOOSE i \in 1..Len(s) : s[i] \in cs /\ \A j \in 1..(i - 1) : s[j] \notin cs
    ELSE 0

\* [sign] digits, nothing else
SignedDigits(s) ==
    LET body == IF s # <<>> /\ s[1] \in {"+", "-"} THEN Tail(s) ELSE s
    IN  IF ~AllDigits(body) THEN [ok |-> FALSE, value |-> 0]
        ELSE IF s[1] = "-" THEN [ok |-> TRUE, value |-> 0 - DigitsValue(body, 0)]
        ELSE [ok |-> TRUE, value |-> DigitsValue(body, 0)]

\* the float m * 10^x
Scaled(m, x) ==
    IF m = 0 THEN Zero
    ELSE IF x >= HugeExp THEN [n |-> m, d |-> 1, e |-> x]
    ELSE IF x >= 0 THEN Rat(m * Pow10(x), 1)
    ELSE Rat(m, Pow10(0 - x))

\* the digits before and after the point, and the parsed exponent
FloatOfParts(neg, whole, frac, expo) ==
    IF ~(whole \o frac # <<>> /\ AllDigits(whole \o frac) /\ expo.ok)
    THEN [ok |-> FALSE, value |-> Zero]
    ELSE [ok |-> TRUE,
          value |-> Scaled(IF neg THEN 0 - DigitsValue(whole \o frac, 0)
                           ELSE DigitsValue(whole \o frac, 0),
                           expo.value - Len(frac))]

\* split the unsigned mantissa at the point, at position dot (0: no point)
FloatOfBody(neg, body, dot, expo) ==
    IF dot = 0 THEN FloatOfParts(neg, body, <<>>, expo)
    ELSE FloatOfParts(neg, SubSeq(body, 1, dot - 1), SubSeq(body, dot + 1, Len(body)), expo)

\* take the sign off the mantissa
FloatOfMantissa(mant, expo) ==
    IF mant # <<>> /\ mant[1] \in {"+", "-"}
    THEN FloatOfBody(mant[1] = "-", Tail(mant), FirstOf(Tail(mant), {"."}), expo)
    ELSE FloatOfBody(FALSE, mant, FirstOf(mant, {"."}), expo)

\* split the numeral at the exponent mark, at position ePos (0: no exponent)
FloatOfNumeral(t, ePos) ==
    IF ePos = 0 THEN FloatOfMantissa(t, [ok |-> TRUE, value |-> 0])
    ELSE FloatOfMantissa(SubSeq(t, 1, ePos - 1), SignedDigits(SubSeq(t, ePos + 1, Len(t))))

ParseFloat(s) == FloatOfNumeral(Strip(s), FirstOf(Strip(s), {"e", "E"}))

(***************************************************************************)
(* StatsAnalyzer.correlation_analysis and its helpers                      *)
(***************************************************************************)
\* The correlation coefficient num / sqrt(rad), kept unevaluated.
Coefficient(num, rad) == [num |-> num, rad |-> rad]

\* the float 0.0 as a coefficient
ZeroCoefficient == Coefficient(Zero, One)

\* sum((x[i] - mean) ** 2 ...) raises OverflowError: a Huge value beside a
\* different value leaves a deviation whose square no double holds
SquaresOverflow(x) ==
    /\ \E i \in 1..Len(x) : IsHuge(x[i])
    /\ \E i, j \in 1..Len(x) : x[i] # x[j]

\* sum(x) / n
Mean(x) == RDiv(RSum(x), FromInt(Len(x)))

SquaresAbout(x, mean) ==
    RSum([i \in 1..Len(x) |-> RMul(RSub(x[i], mean), RSub(x[i], mean))])

\* sum((x[i] - mean) ** 2 ...), when it does not overflow: equal Huge values
\* have the mean equal to each of them
SumSquares(x) ==
    IF \E i \in 1..Len(x) : IsHuge(x[i]) THEN Zero ELSE SquaresAbout(x, Mean(x))

ProductsAbout(x, y, mean_x, mean_y) ==
    RSum([i \in 1..Len(x) |-> RMul(RSub(x[i], mean_x), RSub(y[i], mean_y))])

\* sum((x[i] - mean_x) * (y[i] - mean_y) ...); float * never raises
SumProducts(x, y) ==
    IF \E i \in 1..Len(x) : IsHuge(x[i]) \/ IsHuge(y[i]) THEN Zero
    ELSE ProductsAbout(x, y, Mean(x), Mean(y))

\* the guard against a zero variance, and the quotient
CoefficientOf(numerator, denominator_x, denominator_y) ==
    IF denominator_x = Zero \/ denominator_y = Zero
    THEN Return(ZeroCoefficient)
    ELSE Return(Coefficient(numerator, RMul(denominator_x, denominator_y)))

CalculateCorrelation(x, y) ==
    IF Len(x) # Len(y) \/ Len(x) < 2 THEN Return(ZeroCoefficient)
    ELSE IF SquaresOverflow(x) \/ SquaresOverflow(y) THEN Raise("OverflowError")
    ELSE CoefficientOf(SumProducts(x, y), SumSquares(x), SumSquares(y))

\* abs(correlation) >= bound, for a bound p / q >= 0
AbsAtLeast(c, p, q) ==
    RLeq(RMul(Rat(p * p, q * q), c.rad), RMul(c.num, c.num))

InterpretCorrelation(c) ==
    IF AbsAtLeast(c, 8, 10) THEN "Very Strong"
    ELSE IF AbsAtLeast(c, 6, 10) THEN "Strong"
    ELSE IF AbsAtLeast(c, 4, 10) THEN "Moderate"
    ELSE IF AbsAtLeast(c, 2, 10) THEN "Weak"
    ELSE "Very Weak"

\* values1.append(num1); values2.append(num2), unless float() raised
AppendPair(lists, num1, num2) ==
    IF num1.ok /\ num2.ok
    THEN [values1 |-> Append(lists.values1, num1.value),
          values2 |-> Append(lists.values2, num2.value)]
    ELSE lists

\* the body of the loop: a record adds to both lists, or to neither
PairOfRecord(lists, val1, val2) ==
    IF NonEmpty(val1) /\ NonEmpty(val2)
    THEN AppendPair(lists, ParseFloat(Str(val1)), ParseFloat(Str(val2)))
    ELSE lists

RECURSIVE NumericPairs(_, _, _, _)
NumericPairs(data, col1, col2, lists) ==
    IF data = <<>> THEN lists
    ELSE NumericPairs(Tail(data), col1, col2,
                      PairOfRecord(lists, Get(data[1], col1), Get(data[1], col2)))

\* the result, given what _calculate_correlation handed back
CorrelationResult(correlation, sample_size) ==
    IF correlation.kind = "raise" THEN correlation
    ELSE Return([correlation |-> correlation.value,
                 sample_size |-> sample_size,
                 strength |-> InterpretCorrelation(correlation.value)])

CorrelationOfLists(values1, values2) ==
    IF Len(values1) < 2
    THEN Return([correlation |-> ZeroCoefficient, sample_size |-> 0,
                 error |-> "Insufficient numeric data for correlation analysis"])
    ELSE CorrelationResult(CalculateCorrelation(values1, values2), Len(values1))

CorrelationAnalysis(data, col1, col2) ==
    LET lists == NumericPairs(data, col1, col2, [values1 |-> <<>>, values2 |-> <<>>])
    IN  CorrelationOfLists(lists.values1, lists.values2)

(***************************************************************************)
(* The datasets of the model.  A raw table is what csv.DictReader yields:  *)
(* every row has the header's keys, a missing field is None.  The loader   *)
(* cleans it, and the analyzer is constructed on the cleaned records (or   *)
(* on no record at all).                                                   *)
(***************************************************************************)
\* the header order of the tables of the model
HeaderOrder ==
    <<"age", "gender", "region", "education", "satisfaction", "q1", "q2", "score",
      "rating", "feedback">>

\* list(survey_data[0].keys()) if survey_data else []
Keys(data) ==
    IF data = <<>> THEN <<>>
    ELSE SelectSeq(HeaderOrder, LAMBDA c : c \in DOMAIN data[1])

\* a column name that no table of the model has
NoSuchColumn == "invalid_column"

\* the values of two survey questions, as typed into the file
Q1Raw == {<<"B">>, <<"a">>, <<"n", "a">>}

Q2Raw == {<<"A", "b">>, <<" ", "A">>, <<" ">>}

\* every table of at most MaxRecords rows over two question columns
QuestionTables ==
    UNION {[1..n -> [q1 : Q1Raw, q2 : Q2Raw]] : n \in 0..MaxRecords}

\* the kinds of row of a gender-by-satisfaction table
Male == <<"M", "a", "l", "e">>

Female == <<"F", "e", "m", "a", "l", "e">>

High == <<"H", "i", "g", "h">>

Low == <<"L", "o", "w">>

Medium == <<"M", "e", "d", "i", "u", "m">>

RowKinds ==
    <<[gender |-> Male, satisfaction |-> High],
      [gender |-> Male, satisfaction |-> Low],
      [gender |-> Female, satisfaction |-> High],
      [gender |-> Female, satisfaction |-> Low]>>

\* a row with a third level of satisfaction
MediumRow == [gender |-> Female, satisfaction |-> Medium]

RECURSIVE Repeat(_, _)
Repeat(row, k) == IF k = 0 THEN <<>> ELSE <<row>> \o Repeat(row, k - 1)

\* the table with tally[k] rows of kind k, kind by kind
RECURSIVE TalliedFrom(_, _)
TalliedFrom(tally, k) ==
    IF k > Len(RowKinds) THEN <<>>
    ELSE Repeat(RowKinds[k], tally[k]) \o TalliedFrom(tally, k + 1)

\* how often a kind of row occurs in a table
Tallies == {0, 1, 3, MaxCount}

\* the tallied rows, then at most one row of the third level
TalliedTables ==
    {TalliedFrom(tally, 1) \o Repeat(MediumRow, k) :
        tally \in [1..Len(RowKinds) -> Tallies], k \in 0..1}

\* the values of two numeric columns, as typed into the file
ScoreRaw == {<<"1">>, <<"3">>, <<"1", "e", "1", "5", "5">>}

RatingRaw == {<<"2">>, <<"5">>, <<"x">>}

NumericTables ==
    UNION {[1..n -> [score : ScoreRaw, rating : RatingRaw]] : n \in 0..MaxRecords}

(***************************************************************************)
(* The history of an analyzer: the calls made, each with what it handed    *)
(* back.  It is kept where it is said so at the start, for at most         *)
(* MaxNoted calls; what a call hands back does not depend on it.           *)
(***************************************************************************)
NoAnswers(kept) == [kept |-> kept, calls |-> <<>>]

\* another call can be made
CallsLeft == answers.kept => Len(answers.calls) < MaxNoted

Noted(made, returned) ==
    answers' = IF answers.kept
               THEN [answers EXCEPT
                        !.calls = Append(@, [call |-> made, result |-> returned])]
               ELSE answers

\* StatsAnalyzer.__init__ on the cleaned records of a raw table
Constructed(raw) ==
    /\ survey_data = CleanAndValidateData(raw)
    /\ columns = Keys(CleanAndValidateData(raw))
    /\ call = [op |-> "__init__"]
    /\ result = [kind |-> "none"]
    /\ answers = NoAnswers(FALSE)

Init == \E raw \in QuestionTables : Constructed(raw)

InitChi == \E raw \in TalliedTables : Constructed(raw)

InitCorr == \E raw \in NumericTables : Constructed(raw)

(***************************************************************************)
(* The operations of a constructed analyzer.  None changes the dataset.    *)
(***************************************************************************)
ColumnArgs == Range(columns) \cup {NoSuchColumn}

CrossTabulateCall ==
    \E col1 \in ColumnArgs, col2 \in ColumnArgs :
        /\ CallsLeft
        /\ call' = [op |-> "cross_tabulate", col1 |-> col1, col2 |-> col2]
        /\ result' = CrossTabulate(survey_data, columns, col1, col2)
        /\ Noted(call', result')
        /\ UNCHANGED <<survey_data, columns>>

ChiSquareTestCall ==
    \E col1 \in ColumnArgs, col2 \in ColumnArgs :
        /\ CallsLeft
        /\ call' = [op |-> "chi_square_test", col1 |-> col1, col2 |-> col2]
        /\ result' = ChiSquareTest(survey_data, columns, col1, col2)
        /\ Noted(call', result')
        /\ UNCHANGED <<survey_data, columns>>

CorrelationAnalysisCall ==
    \E col1 \in ColumnArgs, col2 \in ColumnArgs :
        /\ CallsLeft
        /\ call' = [op |-> "correlation_analysis", col1 |-> col1, col2 |-> col2]
        /\ result' = CorrelationAnalysis(survey_data, col1, col2)
        /\ Noted(call', result')
        /\ UNCHANGED <<survey_data, columns>>

Next == CrossTabulateCall \/ ChiSquareTestCall \/ CorrelationAnalysisCall

Spec == Init /\ [][Next]_vars

SpecChi == InitChi /\ [][Next]_vars

SpecCorr == InitCorr /\ [][Next]_vars

(***************************************************************************)
(* The helpers called on their own, as the unit tests call them, on an     *)
(* analyzer of no record.  The arguments are drawn when the call is made;  *)
(* the step carries the call out.                                          *)
(***************************************************************************)
\* the statistics 0, 0.5, 1, ... given to _chi_square_p_value
Statistics == {Rat(k, 2) : k \in 0..MaxStatistic}

Dfs == (0 - 1)..MaxDf

InitPValue ==
    /\ survey_data = <<>>
    /\ columns = <<>>
    /\ \E chi_square \in Statistics, df \in Dfs :
           call = [op |-> "_chi_square_p_value", chi_square |-> chi_square, df |-> df]
    /\ result = [kind |-> "none"]
    /\ answers = NoAnswers(FALSE)

ChiSquarePValueCall ==
    /\ call.op = "_chi_square_p_value"
    /\ result.kind = "none"
    /\ result' = Return(ChiSquarePValue(call.chi_square, call.df))
    /\ UNCHANGED <<survey_data, columns, call, answers>>

NextPValue == ChiSquarePValueCall

SpecPValue == InitPValue /\ [][NextPValue]_vars

\* the numbers given to _calculate_correlation: 0.0, 1.0 and 1e155
Huge == [n |-> 1, d |-> 1, e |-> HugeExp]

Numbers == {Zero, One, Huge}

NumberLists == UNION {[1..n -> Numbers] : n \in 1..MaxPairs}

InitCalcCorr ==
    /\ survey_data = <<>>
    /\ columns = <<>>
    /\ \E x \in NumberLists, y \in NumberLists :
           call = [op |-> "_calculate_correlation", x |-> x, y |-> y]
    /\ result = [kind |-> "none"]
    /\ answers = NoAnswers(FALSE)

CalculateCorrelationCall ==
    /\ call.op = "_calculate_correlation"
    /\ result.kind = "none"
    /\ result' = CalculateCorrelation(call.x, call.y)
    /\ UNCHANGED <<survey_data, columns, call, answers>>

NextCalcCorr == CalculateCorrelationCall

SpecCalcCorr == InitCalcCorr /\ [][NextCalcCorr]_vars

(***************************************************************************)
(* SentimentAnalyzer.  A Python value handed to analyze_text is kept with  *)
(* its type, since the method tells a text from any other value; a number  *)
(* is kept by its numeral.  The score is kept exactly: it is an integer    *)
(* times (5 + k) / 5, and no rounding of the product moves it across the   *)
(* thresholds 1.0 and -1.0 or changes the order of two scores.             *)
(***************************************************************************)
PyStr(s) == [type |-> "str", value |-> s]

PyNone == [type |-> "NoneType", value |-> None]

PyInt(numeral) == [type |-> "int", value |-> numeral]

\* not v: None, '' and 0 are false
Falsy(v) ==
    \/ v.type = "NoneType"
    \/ v.type = "str" /\ v.value = <<>>
    \/ v.type = "int" /\ v.value = <<"0">>

\* self.positive_keywords: the weight of every positive keyword
positive_keywords ==
       (<<"e", "x", "c", "e", "l", "l", "e", "n", "t">> :> 3)
    @@ (<<"a", "m", "a", "z", "i", "n", "g">> :> 3)
    @@ (<<"g", "r", "e", "a", "t">> :> 2)
    @@ (<<"g", "o", "o", "d">> :> 2)
    @@ (<<"w", "o", "n", "d", "e", "r", "f", "u", "l">> :> 3)
    @@ (<<"f", "a", "n", "t", "a", "s", "t", "i", "c">> :> 3)
    @@ (<<"o", "u", "t", "s", "t", "a", "n", "d", "i", "n", "g">> :> 3)
    @@ (<<"p", "e", "r", "f", "e", "c", "t">> :> 3)
    @@ (<<"l", "o", "v", "e">> :> 2)
    @@ (<<"l", "i", "k", "e">> :> 1)
    @@ (<<"e", "n", "j", "o", "y">> :> 2)
    @@ (<<"h", "a", "p", "p", "y">> :> 2)
    @@ (<<"s", "a", "t", "i", "s", "f", "i", "e", "d">> :> 2)
    @@ (<<"p", "l", "e", "a", "s", "e", "d">> :> 2)
    @@ (<<"i", "m", "p", "r", "e", "s", "s", "e", "d">> :> 2)
    @@ (<<"r", "e", "c", "o", "m", "m", "e", "n", "d">> :> 2)
    @@ (<<"h", "e", "l", "p", "f", "u", "l">> :> 2)
    @@ (<<"u", "s", "e", "f", "u", "l">> :> 1)
    @@ (<<"e", "f", "f", "e", "c", "t", "i", "v", "e">> :> 2)
    @@ (<<"q", "u", "a", "l", "i", "t", "y">> :> 1)
    @@ (<<"b", "e", "s", "t">> :> 2)
    @@ (<<"a", "w", "e", "s", "o", "m", "e">> :> 3)
    @@ (<<"b", "r", "i", "l", "l", "i", "a", "n", "t">> :> 3)
    @@ (<<"s", "u", "p", "e", "r", "b">> :> 3)
    @@ (<<"t", "e", "r", "r", "i", "f", "i", "c">> :> 3)
    @@ (<<"d", "e", "l", "i", "g", "h", "t", "e", "d">> :> 3)
    @@ (<<"t", "h", "r", "i", "l", "l", "e", "d">> :> 3)
    @@ (<<"e", "x", "c", "i", "t", "e", "d">> :> 2)
    @@ (<<"p", "o", "s", "i", "t", "i", "v", "e">> :> 1)
    @@ (<<"s", "u", "c", "c", "e", "s", "s", "f", "u", "l">> :> 2)
    @@ (<<"i", "m", "p", "r", "o", "v", "e", "d">> :> 1)
    @@ (<<"b", "e", "t", "t", "e", "r">> :> 1)
    @@ (<<"e", "x", "c", "e", "e", "d", "e", "d">> :> 2)
    @@ (<<"s", "u", "r", "p", "a", "s", "s", "e", "d">> :> 2)

\* self.negative_keywords: the weight of every negative keyword
negative_keywords ==
       (<<"t", "e", "r", "r", "i", "b", "l", "e">> :> 3)
    @@ (<<"a", "w", "f", "u", "l">> :> 3)
    @@ (<<"h", "o", "r", "r", "i", "b", "l", "e">> :> 3)
    @@ (<<"b", "a", "d">> :> 2)
    @@ (<<"p", "o", "o", "r">> :> 2)
    @@ (<<"d", "i", "s", "a", "p", "p", "o", "i", "n", "t", "i", "n", "g">> :> 2)
    @@ (<<"f", "r", "u", "s", "t", "r", "a", "t", "e", "d">> :> 2)
    @@ (<<"a", "n", "g", "r", "y">> :> 2)
    @@ (<<"u", "p", "s", "e", "t">> :> 2)
    @@ (<<"a", "n", "n", "o", "y", "e", "d">> :> 2)
    @@ (<<"h", "a", "t", "e">> :> 3)
    @@ (<<"d", "i", "s", "l", "i", "k", "e">> :> 2)
    @@ (<<"w", "o", "r", "s", "t">> :> 3)
    @@ (<<"u", "s", "e", "l", "e", "s", "s">> :> 2)
    @@ (<<"w", "a", "s", "t", "e">> :> 2)
    @@ (<<"p", "r", "o", "b", "l", "e", "m">> :> 1)
    @@ (<<"i", "s", "s", "u", "e">> :> 1)
    @@ (<<"d", "i", "f", "f", "i", "c", "u", "l", "t">> :> 1)
    @@ (<<"c", "o", "n", "f", "u", "s", "i", "n", "g">> :> 1)
    @@ (<<"c", "o", "m", "p", "l", "i", "c", "a", "t", "e", "d">> :> 1)
    @@ (<<"b", "r", "o", "k", "e", "n">> :> 2)
    @@ (<<"f", "a", "i", "l", "e", "d">> :> 2)
    @@ (<<"e", "r", "r", "o", "r">> :> 1)
    @@ (<<"b", "u", "g">> :> 1)
    @@ (<<"c", "r", "a", "s", "h">> :> 2)
    @@ (<<"s", "l", "o", "w">> :> 1)
    @@ (<<"e", "x", "p", "e", "n", "s", "i", "v", "e">> :> 1)
    @@ (<<"o", "v", "e", "r", "p", "r", "i", "c", "e", "d">> :> 2)
    @@ (<<"c", "h", "e", "a", "p">> :> 1)
    @@ (<<"l", "o", "w", " ", "q", "u", "a", "l", "i", "t", "y">> :> 2)
    @@ (<<"u", "n", "r", "e", "l", "i", "a", "b", "l", "e">> :> 2)
    @@ (<<"u", "n", "s", "t", "a", "b", "l", "e">> :> 2)
    @@ (<<"i", "n", "c", "o", "n", "s", "i", "s", "t", "e", "n", "t">> :> 1)
    @@ (<<"d", "i", "s", "o", "r", "g", "a", "n", "i", "z", "e", "d">> :> 1)
    @@ (<<"m", "e", "s", "s", "y">> :> 1)
    @@ (<<"c", "h", "a", "o", "t", "i", "c">> :> 2)
    @@ (<<"s", "t", "r", "e", "s", "s", "f", "u", "l">> :> 2)
    @@ (<<"o", "v", "e", "r", "w", "h", "e", "l", "m", "i", "n", "g">> :> 2)

\* self.negation_words
negation_words ==
    { <<"n", "o", "t">>,
      <<"n", "o">>,
      <<"n", "e", "v", "e", "r">>,
      <<"n", "o", "n", "e">>,
      <<"n", "e", "i", "t", "h", "e", "r">>,
      <<"n", "o", "r">>,
      <<"n", "o", "b", "o", "d", "y">>,
      <<"n", "o", "t", "h", "i", "n", "g">>,
      <<"n", "o", "w", "h", "e", "r", "e">>,
      <<"h", "a", "r", "d", "l", "y">>,
      <<"b", "a", "r", "e", "l", "y">>,
      <<"s", "c", "a", "r", "c", "e", "l", "y">>,
      <<"d", "o", "e", "s", "n", "'", "t">>,
      <<"d", "o", "n", "'", "t">>,
      <<"d", "i", "d", "n", "'", "t">>,
      <<"w", "o", "n", "'", "t">>,
      <<"c", "a", "n", "'", "t">>,
      <<"c", "o", "u", "l", "d", "n", "'", "t">>,
      <<"w", "o", "u", "l", "d", "n", "'", "t">>,
      <<"s", "h", "o", "u", "l", "d", "n", "'", "t">>,
      <<"i", "s", "n", "'", "t">>,
      <<"a", "r", "e", "n", "'", "t">>,
      <<"w", "a", "s", "n", "'", "t">>,
      <<"w", "e", "r", "e", "n", "'", "t">>,
      <<"h", "a", "s", "n", "'", "t">>,
      <<"h", "a", "v", "e", "n", "'", "t">>,
      <<"h", "a", "d", "n", "'", "t">>,
      <<"d", "o", "e", "s", "n", "t">>,
      <<"d", "o", "n", "t">>,
      <<"d", "i", "d", "n", "t">>,
      <<"w", "o", "n", "t">>,
      <<"c", "a", "n", "t">>,
      <<"c", "o", "u", "l", "d", "n", "t">>,
      <<"w", "o", "u", "l", "d", "n", "t">>,
      <<"s", "h", "o", "u", "l", "d", "n", "t">>,
      <<"i", "s", "n", "t">>,
      <<"a", "r", "e", "n", "t">>,
      <<"w", "a", "s", "n", "t">>,
      <<"w", "e", "r", "e", "n", "t">>,
      <<"h", "a", "s", "n", "t">>,
      <<"h", "a", "v", "e", "n", "t">>,
      <<"h", "a", "d", "n", "t">> }

\* self.intensifier_words: the keys (the values are never read)
intensifier_words ==
    { <<"v", "e", "r", "y">>,
      <<"r", "e", "a", "l", "l", "y">>,
      <<"e", "x", "t", "r", "e", "m", "e", "l", "y">>,
      <<"a", "b", "s", "o", "l", "u", "t", "e", "l", "y">>,
      <<"c", "o", "m", "p", "l", "e", "t", "e", "l", "y">>,
      <<"t", "o", "t", "a", "l", "l", "y">>,
      <<"e", "n", "t", "i", "r", "e", "l", "y">>,
      <<"t", "h", "o", "r", "o", "u", "g", "h", "l", "y">>,
      <<"h", "i", "g", "h", "l", "y">>,
      <<"i", "n", "c", "r", "e", "d", "i", "b", "l", "y">>,
      <<"a", "m", "a", "z", "i", "n", "g", "l", "y">>,
      <<"e", "x", "c", "e", "p", "t", "i", "o", "n", "a", "l", "l", "y">>,
      <<"p", "a", "r", "t", "i", "c", "u", "l", "a", "r", "l", "y">>,
      <<"e", "s", "p", "e", "c", "i", "a", "l", "l", "y">>,
      <<"n", "o", "t", "a", "b", "l", "y">>,
      <<"r", "e", "m", "a", "r", "k", "a", "b", "l", "y">> }

\* \w of the regular expressions: a letter, a digit or the underscore
WordChars == Range(Digits) \cup Range(Upper) \cup Range(Lower) \cup {"_"}

\* re.sub(r'\s+', ' ', text): every run of whitespace becomes one space
RECURSIVE CollapseWhitespace(_)
CollapseWhitespace(s) ==
    IF s = <<>> THEN <<>>
    ELSE IF s[1] \in Whitespace
         THEN <<" ">> \o CollapseWhitespace(LStrip(s))
         ELSE <<s[1]>> \o CollapseWhitespace(Tail(s))

\* re.sub(r'[^\w\s\']', ' ', text): punctuation becomes a space
RemovePunctuation(s) ==
    [i \in 1..Len(s) |->
        IF s[i] \in WordChars \cup Whitespace \cup {"'"} THEN s[i] ELSE " "]

\* _clean_text
CleanText(text) == Strip(RemovePunctuation(CollapseWhitespace(StrLower(text))))

\* the first word of a text that starts with none of the whitespace
RECURSIVE FirstWord(_)
FirstWord(s) ==
    IF s = <<>> \/ s[1] \in Whitespace THEN <<>>
    ELSE <<s[1]>> \o FirstWord(Tail(s))

\* str.split(): the runs of characters between whitespace
RECURSIVE Split(_)
Split(s) ==
    IF LStrip(s) = <<>> THEN <<>>
    ELSE <<FirstWord(LStrip(s))>>
             \o Split(SubSeq(LStrip(s), Len(FirstWord(LStrip(s))) + 1, Len(LStrip(s))))

\* _extract_words
ExtractWords(text) == Split(text)

\* max(a, b) on integers
Max(a, b) == IF a < b THEN b ELSE a

\* _is_negated with a window of two words
IsNegatedWithinTwo(words, current_index) ==
    \E i \in Max(1, current_index - 2)..(current_index - 1) :
        StrLower(words[i]) \in negation_words

\* _is_negated: one of the three words before the current one is a negation
\* (current_index counts from 1 here, from 0 in the source)
IsNegated(words, current_index) ==
    \E i \in Max(1, current_index - 3)..(current_index - 1) :
        StrLower(words[i]) \in negation_words

\* _categorize_sentiment with the bounds included
CategorizeSentimentInclusive(score) ==
    IF RLeq(One, score) THEN "positive"
    ELSE IF RLeq(score, FromInt(0 - 1)) THEN "negative"
    ELSE "neutral"

\* _categorize_sentiment
CategorizeSentiment(score) ==
    IF RLess(One, score) THEN "positive"
    ELSE IF RLess(score, FromInt(0 - 1)) THEN "negative"
    ELSE "neutral"

\* the state of the loop of analyze_text before the first word
NothingScored ==
    [sentiment_score |-> 0, positive_words |-> <<>>, negative_words |-> <<>>,
     intensifier_count |-> 0]

\* a keyword of the given weight: added to positive_words, or taken off the
\* score and added to negative_words
Scored(acc, word, weight, is_positive) ==
    IF is_positive
    THEN [acc EXCEPT !.sentiment_score = @ + weight,
                     !.positive_words = Append(@, word)]
    ELSE [acc EXCEPT !.sentiment_score = @ - weight,
                     !.negative_words = Append(@, word)]

\* one round of the loop of analyze_text, on the word at index i
ScanWord(words, i, word_lower, acc) ==
    IF word_lower \in intensifier_words
    THEN [acc EXCEPT !.intensifier_count = @ + 1]
    ELSE IF word_lower \in DOMAIN positive_keywords
    THEN Scored(acc, words[i], positive_keywords[word_lower], ~IsNegated(words, i))
    ELSE IF word_lower \in DOMAIN negative_keywords
    THEN Scored(acc, words[i], negative_keywords[word_lower], IsNegated(words, i))
    ELSE acc

\* the loop of analyze_text from the word at index i on
RECURSIVE ScanWords(_, _, _)
ScanWords(words, i, acc) ==
    IF i > Len(words) THEN acc
    ELSE ScanWords(words, i + 1, ScanWord(words, i, StrLower(words[i]), acc))

\* the multiplier applied whatever the number of intensifiers: 1.2
IntensifiedOnce(sentiment_score, intensifier_count) ==
    IF intensifier_count > 0
    THEN RMul(FromInt(sentiment_score), Rat(12, 10))
    ELSE FromInt(sentiment_score)

\* sentiment_score *= (1 + (intensifier_count * 0.2))
Intensified(sentiment_score, intensifier_count) ==
    IF intensifier_count > 0
    THEN RMul(FromInt(sentiment_score),
              RAdd(One, RMul(FromInt(intensifier_count), Rat(2, 10))))
    ELSE FromInt(sentiment_score)

\* min(a, b)
RMin(a, b) == IF RLess(b, a) THEN b ELSE a

\* the dictionary analyze_text returns for a text with the given words
TextResult(sentiment_score, positive_words, negative_words, total_words) ==
    [sentiment |-> CategorizeSentiment(sentiment_score),
     score |-> sentiment_score,
     positive_words |-> positive_words,
     negative_words |-> negative_words,
     confidence |-> RMin(One, Rat(Len(positive_words) + Len(negative_words),
                                  Max(total_words, 1))),
     total_words |-> total_words,
     sentiment_words |-> Len(positive_words) + Len(negative_words)]

TextResultOf(acc, total_words) ==
    TextResult(Intensified(acc.sentiment_score, acc.intensifier_count),
               acc.positive_words, acc.negative_words, total_words)

AnalyzeWords(words) == TextResultOf(ScanWords(words, 1, NothingScored), Len(words))

\* what analyze_text returns for '' and for a value that is no text
NoText ==
    [sentiment |-> "neutral", score |-> Zero, positive_words |-> <<>>,
     negative_words |-> <<>>, confidence |-> Zero]

\* analyze_text without the test of the type: a value that is no text
\* reaches text.lower()
AnalyzeTextUntyped(text) ==
    IF Falsy(text) THEN Return(NoText)
    ELSE IF text.type # "str" THEN Raise("AttributeError")
    ELSE Return(AnalyzeWords(ExtractWords(CleanText(text.value))))

\* analyze_text
AnalyzeText(text) ==
    IF Falsy(text) \/ text.type # "str" THEN Return(NoText)
    ELSE Return(AnalyzeWords(ExtractWords(CleanText(text.value))))

(***************************************************************************)
(* Python floats with their rounding, where a claim depends on it: a       *)
(* non-negative IEEE 754 double is the 53 bits of its significand, first   *)
(* bit 1, and the exponent of the last bit; 0.0 has no bits.  Every        *)
(* operation is exact on the bits and then rounded to the nearest double,  *)
(* ties to the even significand.                                           *)
(***************************************************************************)
\* bits of the significand of a double
Precision == 53

DZero == [bits |-> <<>>, exp |-> 0]

Zeros(n) == [i \in 1..n |-> 0]

\* the bits of a natural number, first bit 1; none for 0
RECURSIVE IntBits(_)
IntBits(n) == IF n = 0 THEN <<>> ELSE Append(IntBits(n \div 2), n % 2)

\* the place of the last 0 among the bits
LastZero(bits) ==
    CHOOSE j \in 1..Len(bits) :
        bits[j] = 0 /\ \A i \in (j + 1)..Len(bits) : bits[i] = 1

\* bits + 1, on bits that are not all 1
Increment(bits) ==
    [i \in 1..Len(bits) |->
        IF i < LastZero(bits) THEN bits[i] ELSE IF i = LastZero(bits) THEN 1 ELSE 0]

\* the significand one unit up; 2^53 is 2^52 one exponent higher
RoundedUp(bits, exp) ==
    IF \A i \in 1..Len(bits) : bits[i] = 1
    THEN [bits |-> <<1>> \o Zeros(Precision - 1), exp |-> exp + 1]
    ELSE [bits |-> Increment(bits), exp |-> exp]

\* the double nearest to the number of the given bits (first bit 1, the
\* last bit of exponent exp), ties to even
RoundBits(bits, exp) ==
    IF bits = <<>> THEN DZero
    ELSE IF Len(bits) <= Precision
    THEN [bits |-> bits \o Zeros(Precision - Len(bits)),
          exp |-> exp - (Precision - Len(bits))]
    ELSE IF /\ bits[Precision + 1] = 1
            /\ \/ bits[Precision] = 1
               \/ \E i \in (Precision + 2)..Len(bits) : bits[i] = 1
    THEN RoundedUp(SubSeq(bits, 1, Precision), exp + (Len(bits) - Precision))
    ELSE [bits |-> SubSeq(bits, 1, Precision), exp |-> exp + (Len(bits) - Precision)]

\* float(n) of a natural number
DFromInt(n) == RoundBits(IntBits(n), 0)

\* h * h * k modulo b
SquareMod(h, k, b) == (h * h * k) % b

\* 2^n modulo b, by repeated squaring
RECURSIVE PowerOfTwoMod(_, _)
PowerOfTwoMod(n, b) ==
    IF n = 0 THEN 1 % b
    ELSE SquareMod(PowerOfTwoMod(n \div 2, b), IF n % 2 = 1 THEN 2 ELSE 1, b)

\* the remainder left after n bits of r / b behind the binary point
RemainderAfter(r, b, n) == (r * PowerOfTwoMod(n, b)) % b

\* the first n + 1 bits of a / b for b <= a < 2 b, then one bit that is 1
\* when the quotient has further bits that are not all 0
QuotientBits(a, b, n) ==
    [i \in 1..(n + 2) |->
        IF i = 1 THEN 1
        ELSE IF i = n + 2 THEN (IF RemainderAfter(a - b, b, n) = 0 THEN 0 ELSE 1)
        ELSE (2 * RemainderAfter(a - b, b, i - 2)) \div b]

\* a * 2^exp / b scaled until b <= a < 2 b, then divided
RECURSIVE DivScaled(_, _, _)
DivScaled(a, b, exp) ==
    IF a < b THEN DivScaled(2 * a, b, exp - 1)
    ELSE IF a >= 2 * b THEN DivScaled(a, 2 * b, exp + 1)
    ELSE RoundBits(QuotientBits(a, b, Precision), exp - (Precision + 1))

\* a / b on natural numbers, b > 0: true division
DDiv(a, b) == IF a = 0 THEN DZero ELSE DivScaled(a, b, 0)

\* the addition of a and b, bits of one length, carries into the place i
CarryInto(a, b, i) ==
    \E j \in (i + 1)..Len(a) :
        /\ a[j] + b[j] = 2
        /\ \A k \in (i + 1)..(j - 1) : a[k] + b[k] = 1

\* the bits of a + b, a and b of one length; one bit more when it carries
PlusBits(a, b) ==
    (IF CarryInto(a, b, 0) THEN <<1>> ELSE <<>>)
        \o [i \in 1..Len(a) |->
               (a[i] + b[i] + (IF CarryInto(a, b, i) THEN 1 ELSE 0)) % 2]

\* the bits of a double down to the exponent exp, in len bits
Aligned(x, exp, len) ==
    Zeros(len - Len(x.bits) - (x.exp - exp)) \o x.bits \o Zeros(x.exp - exp)

\* x + y for doubles that are not 0.0, the bits aligned at exponent exp
PlusAligned(x, y, exp, len) ==
    RoundBits(PlusBits(Aligned(x, exp, len), Aligned(y, exp, len)), exp)

\* x + y
DPlus(x, y) ==
    IF x = DZero THEN y
    ELSE IF y = DZero THEN x
    ELSE PlusAligned(x, y, IF x.exp < y.exp THEN x.exp ELSE y.exp,
                     Precision + (IF x.exp < y.exp THEN y.exp - x.exp ELSE x.exp - y.exp))

\* bits with zeros before them, len bits in all
PadTo(bits, len) == Zeros(len - Len(bits)) \o bits

\* the bits of a + b, a no shorter than b
PlusShorter(a, b) == PlusBits(a, PadTo(b, Len(a)))

\* x * 100, a double times the integer 100 = 64 + 32 + 4: three shifts of
\* the bits added up exactly, then rounded
DTimesHundred(x) ==
    IF x = DZero THEN DZero
    ELSE RoundBits(PlusShorter(PlusShorter(x.bits \o Zeros(6), x.bits \o Zeros(5)),
                               x.bits \o Zeros(2)),
                   x.exp)

\* a < b on bits of one length
BitsLess(a, b) ==
    \E k \in 1..Len(a) : a[k] < b[k] /\ \A i \in 1..(k - 1) : a[i] = b[i]

\* x < y
DLess(x, y) ==
    IF y = DZero THEN FALSE
    ELSE IF x = DZero THEN TRUE
    ELSE x.exp < y.exp \/ (x.exp = y.exp /\ BitsLess(x.bits, y.bits))

\* x <= y
DLeq(x, y) == ~DLess(y, x)

\* the dictionary analyze_column returns when nothing was scored
NothingAnalyzed ==
    [positive |-> 0, negative |-> 0, neutral |-> 0,
     positive_pct |-> DZero, negative_pct |-> DZero, neutral_pct |-> DZero,
     avg_score |-> Zero, total_responses |-> 0]

\* the values of a column that analyze_column scores, in the order of the
\* records: text is not None and str(text).strip()
TextsOf(data, column) ==
    SelectSeq([i \in 1..Len(data) |-> Get(data[i], column)], NonEmpty)

\* sentiment_results for the scored values
SentimentResultsOf(texts) ==
    [i \in 1..Len(texts) |-> AnalyzeText(PyStr(Str(texts[i]))).value]

\* sum(1 for r in sentiment_results if r['sentiment'] == sentiment)
SentimentCount(sentiment_results, sentiment) ==
    Cardinality({i \in 1..Len(sentiment_results) :
                    sentiment_results[i].sentiment = sentiment})

\* the percentage as the whole number below it
PercentageWhole(count, total) == DFromInt((count * 100) \div total)

\* (count / total) * 100
Percentage(count, total) == DTimesHundred(DDiv(count, total))

\* sum(r['score'] for r in sentiment_results) / total
AverageScore(sentiment_results) ==
    RDiv(RSum([i \in 1..Len(sentiment_results) |-> sentiment_results[i].score]),
         FromInt(Len(sentiment_results)))

\* the dictionary analyze_column returns for at least one scored value
ColumnSummary(sentiment_results, positive_count, negative_count, neutral_count) ==
    [positive |-> positive_count,
     negative |-> negative_count,
     neutral |-> neutral_count,
     positive_pct |-> Percentage(positive_count, Len(sentiment_results)),
     negative_pct |-> Percentage(negative_count, Len(sentiment_results)),
     neutral_pct |-> Percentage(neutral_count, Len(sentiment_results)),
     avg_score |-> AverageScore(sentiment_results),
     total_responses |-> Len(sentiment_results),
     detailed_results |-> sentiment_results]

\* analyze_column from the scored values on, without the test for none
SummaryOfResultsUnchecked(sentiment_results) ==
    IF sentiment_results = <<>> THEN Raise("ZeroDivisionError")
    ELSE Return(ColumnSummary(sentiment_results,
                              SentimentCount(sentiment_results, "positive"),
                              SentimentCount(sentiment_results, "negative"),
                              SentimentCount(sentiment_results, "neutral")))

\* analyze_column from the scored values on
SummaryOfResults(sentiment_results) ==
    IF sentiment_results = <<>> THEN Return(NothingAnalyzed)
    ELSE Return(ColumnSummary(sentiment_results,
                              SentimentCount(sentiment_results, "positive"),
                              SentimentCount(sentiment_results, "negative"),
                              SentimentCount(sentiment_results, "neutral")))

\* analyze_column
AnalyzeColumn(data, column) ==
    IF data = <<>> \/ column \notin DOMAIN data[1] THEN Return(NothingAnalyzed)
    ELSE SummaryOfResults(SentimentResultsOf(TextsOf(data, column)))

\* positive_words of _are_responses_related
positive_words ==
    { <<"g", "o", "o", "d">>,
      <<"g", "r", "e", "a", "t">>,
      <<"e", "x", "c", "e", "l", "l", "e", "n", "t">>,
      <<"s", "a", "t", "i", "s", "f", "i", "e", "d">>,
      <<"h", "a", "p", "p", "y">>,
      <<"l", "i", "k", "e">>,
      <<"l", "o", "v", "e">> }

\* negative_words of _are_responses_related
negative_words ==
    { <<"b", "a", "d">>,
      <<"p", "o", "o", "r">>,
      <<"t", "e", "r", "r", "i", "b", "l", "e">>,
      <<"d", "i", "s", "s", "a", "t", "i", "s", "f", "i", "e", "d">>,
      <<"u", "n", "h", "a", "p", "p", "y">>,
      <<"d", "i", "s", "l", "i", "k", "e">>,
      <<"h", "a", "t", "e">> }

\* the characters of the column names of the model
ColumnChars ==
       ("age" :> <<"a", "g", "e">>)
    @@ ("gender" :> <<"g", "e", "n", "d", "e", "r">>)
    @@ ("region" :> <<"r", "e", "g", "i", "o", "n">>)
    @@ ("education" :> <<"e", "d", "u", "c", "a", "t", "i", "o", "n">>)
    @@ ("satisfaction" :> <<"s", "a", "t", "i", "s", "f", "a", "c", "t", "i", "o", "n">>)
    @@ ("q1" :> <<"q", "1">>)
    @@ ("q2" :> <<"q", "2">>)
    @@ ("score" :> <<"s", "c", "o", "r", "e">>)
    @@ ("rating" :> <<"r", "a", "t", "i", "n", "g">>)
    @@ ("feedback" :> <<"f", "e", "e", "d", "b", "a", "c", "k">>)
\* the fixed parts of the descriptions of the patterns
AgeGroupsText ==
    <<"A", "g", "e", " ", "g", "r", "o", "u", "p", "s", " ">>

RegionsText ==
    <<"R", "e", "g", "i", "o", "n", "s", " ">>

EducationLevelsText ==
    <<"E", "d", "u", "c", "a", "t", "i", "o", "n", " ", "l", "e", "v", "e",
      "l", "s", " ">>

MostCommonlyRespondedText ==
    <<" ", "m", "o", "s", "t", " ", "c", "o", "m", "m", "o", "n", "l", "y",
      " ", "r", "e", "s", "p", "o", "n", "d", "e", "d", " ", "'">>

ToText ==
    <<"'", " ", "t", "o", " ">>

GenderDifferencesText ==
    <<"G", "e", "n", "d", "e", "r", " ", "d", "i", "f", "f", "e", "r", "e",
      "n", "c", "e", "s", " ", "d", "e", "t", "e", "c", "t", "e", "d", " ",
      "i", "n", " ">>

ResponsesText ==
    <<" ", "r", "e", "s", "p", "o", "n", "s", "e", "s">>

StrongCorrelationText ==
    <<"S", "t", "r", "o", "n", "g", " ", "c", "o", "r", "r", "e", "l", "a",
      "t", "i", "o", "n", " ", "d", "e", "t", "e", "c", "t", "e", "d", " ",
      "b", "e", "t", "w", "e", "e", "n", " ">>

AndText ==
    <<" ", "a", "n", "d", " ">>

CommonCombinationText ==
    <<"C", "o", "m", "m", "o", "n", " ", "r", "e", "s", "p", "o", "n", "s",
      "e", " ", "c", "o", "m", "b", "i", "n", "a", "t", "i", "o", "n", ":",
      " ">>

OutlierResponsesText ==
    <<"O", "u", "t", "l", "i", "e", "r", " ", "r", "e", "s", "p", "o", "n",
      "s", "e", "s", " ", "d", "e", "t", "e", "c", "t", "e", "d", " ", "i",
      "n", " ">>

\* sep.join(texts)
RECURSIVE JoinWith(_, _)
JoinWith(texts, sep) ==
    IF texts = <<>> THEN <<>>
    ELSE IF Len(texts) = 1 THEN texts[1]
    ELSE texts[1] \o sep \o JoinWith(Tail(texts), sep)

(***************************************************************************)
(* PatternDetector.  A dictionary of the code that is read in the order of *)
(* its keys is kept as the sequence of its entries in that order; a        *)
(* confidence and a percentage are floats with their rounding.             *)
(***************************************************************************)
\* ['age', 'gender', 'region', 'education']
DemographicColumns == {"age", "gender", "region", "education"}

\* the columns that are analyzed as questions, in the order of the header
ResponseColumns(cols) == SelectSeq(cols, LAMBDA column : column \notin DemographicColumns)

\* a value that counts as true: neither None nor ''
Truthy(v) == v # None /\ v # <<>>

\* the places of a sequence, in order
Places(seq) == [i \in 1..Len(seq) |-> i]

\* the entries of a sequence at the given places
EntriesAt(seq, places) == [k \in 1..Len(places) |-> seq[places[k]]]

\* the distinct elements of a sequence in the order of their first
\* occurrence: the keys of a dict or Counter filled from the sequence
FirstOccurrences(seq) ==
    EntriesAt(seq, SelectSeq(Places(seq),
                             LAMBDA i : \A j \in 1..(i - 1) : seq[j] # seq[i]))

\* the sequences of a sequence of sequences, one after the other
RECURSIVE Flatten(_)
Flatten(seqs) == IF seqs = <<>> THEN <<>> ELSE seqs[1] \o Flatten(Tail(seqs))

\* Counter(values)[v]
CountOf(values, v) == Cardinality({i \in 1..Len(values) : values[i] = v})

\* the first of the keys with the highest count
FirstHighest(values, keys) ==
    keys[CHOOSE k \in 1..Len(keys) :
            /\ \A j \in 1..Len(keys) : CountOf(values, keys[j]) <= CountOf(values, keys[k])
            /\ \A j \in 1..(k - 1) : CountOf(values, keys[j]) < CountOf(values, keys[k])]

\* a variant: the value counted most often, the one counted last among
\* several
MostCommonMetLast(values) ==
    FirstHighest(values, [k \in 1..Len(FirstOccurrences(values)) |->
                             FirstOccurrences(values)[Len(FirstOccurrences(values)) + 1 - k]])

\* Counter(values).most_common(1)[0][0]: the value counted most often, the
\* one counted first among several
MostCommon(values) == FirstHighest(values, FirstOccurrences(values))

UpperChar(c) == IF c \in Range(Lower) THEN Upper[IndexOf(Lower, c)] ELSE c

\* the text as it is written
TitleAsWritten(s) == s

\* str.title(): a letter after a letter in lower case, any other letter in
\* upper case
Title(s) ==
    [i \in 1..Len(s) |->
        IF i > 1 /\ s[i - 1] \in Range(Lower) \cup Range(Upper)
        THEN LowerChar(s[i]) ELSE UpperChar(s[i])]

\* the names of the age groups, in the order of the dict
AgeGroupNames ==
    <<<<"1", "8", "-", "2", "5">>, <<"2", "6", "-", "3", "5">>,
      <<"3", "6", "-", "4", "5">>, <<"4", "6", "-", "5", "5">>,
      <<"5", "6", "-", "6", "5">>, <<"6", "5", "+">>>>

\* a variant: the last group begins at 65
AgeGroupOfFrom65(age) ==
    IF 18 <= age /\ age <= 25 THEN AgeGroupNames[1]
    ELSE IF 26 <= age /\ age <= 35 THEN AgeGroupNames[2]
    ELSE IF 36 <= age /\ age <= 45 THEN AgeGroupNames[3]
    ELSE IF 46 <= age /\ age <= 55 THEN AgeGroupNames[4]
    ELSE IF 56 <= age /\ age < 65 THEN AgeGroupNames[5]
    ELSE IF age >= 65 THEN AgeGroupNames[6]
    ELSE <<>>

\* the age group of an age, '' when it has none
AgeGroupOf(age) ==
    IF 18 <= age /\ age <= 25 THEN AgeGroupNames[1]
    ELSE IF 26 <= age /\ age <= 35 THEN AgeGroupNames[2]
    ELSE IF 36 <= age /\ age <= 45 THEN AgeGroupNames[3]
    ELSE IF 46 <= age /\ age <= 55 THEN AgeGroupNames[4]
    ELSE IF 56 <= age /\ age <= 65 THEN AgeGroupNames[5]
    ELSE IF age > 65 THEN AgeGroupNames[6]
    ELSE <<>>

\* the age group a record is appended to, '' when it is appended to none
AgeGroupOfRow(row) ==
    IF Truthy(Get(row, "age")) /\ AllDigits(Str(Get(row, "age")))
    THEN AgeGroupOf(DigitsValue(Str(Get(row, "age")), 0))
    ELSE <<>>

\* age_groups: the records of every age group
AgeGroups(data) ==
    [k \in 1..Len(AgeGroupNames) |->
        [key |-> AgeGroupNames[k],
         rows |-> SelectSeq(data, LAMBDA row : AgeGroupOfRow(row) = AgeGroupNames[k])]]

\* the key of the group a record is appended to, None when it is appended
\* to none: str(value).strip().title()
GroupKey(row, column) ==
    IF Truthy(Get(row, column)) /\ Strip(Str(Get(row, column))) # <<>>
    THEN Title(Strip(Str(Get(row, column))))
    ELSE None

GroupsOfKeys(data, column, keys) ==
    [k \in 1..Len(keys) |->
        [key |-> keys[k],
         rows |-> SelectSeq(data, LAMBDA row : GroupKey(row, column) = keys[k])]]

\* gender_groups, regional_groups, education_groups: the records of every
\* value of the column, in the order in which the values come up
GroupsBy(data, column) ==
    GroupsOfKeys(data, column,
                 FirstOccurrences(SelectSeq([i \in 1..Len(data) |-> GroupKey(data[i], column)],
                                            LAMBDA key : key # None)))

\* [r.get(column) for r in responses if r.get(column)]
ValuesIn(rows, column) ==
    SelectSeq([i \in 1..Len(rows) |-> Get(rows[i], column)], Truthy)

\* the entry of a group in age_group_responses and the like
GroupResponse(group, values, most_common) ==
    [group |-> group.key,
     size |-> Len(group.rows),
     response |-> most_common,
     count |-> CountOf(values, most_common),
     percentage |-> Percentage(CountOf(values, most_common), Len(values))]

GroupResponseOf(group, values) == GroupResponse(group, values, MostCommon(values))

\* the groups that have a value in the column
Responding(groups, column) ==
    SelectSeq(groups, LAMBDA group : ValuesIn(group.rows, column) # <<>>)

GroupResponsesOf(responding, column) ==
    [k \in 1..Len(responding) |->
        GroupResponseOf(responding[k], ValuesIn(responding[k].rows, column))]

\* age_group_responses and the like: the most common response of every
\* group that has a value in the column
GroupResponses(groups, column) == GroupResponsesOf(Responding(groups, column), column)

\* min(cap, n) without the cap
MinUncapped(a, b) == b

\* min(a, b) on integers
Min(a, b) == IF b < a THEN b ELSE a

\* the groups named in a pattern, in the order of the dict
GroupsNamed(sharing) == [k \in 1..Len(sharing) |-> sharing[k].group]

\* f"... {', '.join(groups)} most commonly responded '{response}' to {column}"
SharedDescription(groups_text, sharing, response, column) ==
    groups_text \o JoinWith(GroupsNamed(sharing), <<",", " ">>)
        \o MostCommonlyRespondedText \o Str(response) \o ToText \o ColumnChars[column]

\* the pattern of the groups that share a response
SharedPattern(kind, column, response, sharing) ==
    IF kind = "age"
    THEN [type |-> "age_pattern",
          description |-> SharedDescription(AgeGroupsText, sharing, response, column),
          confidence |-> DFromInt(Min(90, Len(sharing) * 20)),
          sample_size |-> SumInts([k \in 1..Len(sharing) |-> sharing[k].size]),
          response |-> response,
          affected_groups |-> GroupsNamed(sharing)]
    ELSE IF kind = "region"
    THEN [type |-> "regional_pattern",
          description |-> SharedDescription(RegionsText, sharing, response, column),
          confidence |-> DFromInt(Min(85, Len(sharing) * 25)),
          sample_size |-> SumInts([k \in 1..Len(sharing) |-> sharing[k].size]),
          response |-> response,
          affected_regions |-> GroupsNamed(sharing)]
    ELSE [type |-> "education_pattern",
          description |-> SharedDescription(EducationLevelsText, sharing, response, column),
          confidence |-> DFromInt(Min(80, Len(sharing) * 20)),
          sample_size |-> SumInts([k \in 1..Len(sharing) |-> sharing[k].size]),
          response |-> response,
          affected_education_levels |-> GroupsNamed(sharing)]

\* the groups with the given most common response
Sharing(group_responses, response) ==
    SelectSeq(group_responses, LAMBDA entry : entry.response = response)

\* response_groups: the most common responses in the order in which they
\* come up
ResponsesOf(group_responses) ==
    FirstOccurrences([k \in 1..Len(group_responses) |-> group_responses[k].response])

\* the responses shared by more than one group
SharedResponses(group_responses) ==
    SelectSeq(ResponsesOf(group_responses),
              LAMBDA response : Len(Sharing(group_responses, response)) > 1)

\* the patterns of one column by age group, region or education
SharedPatternsOf(kind, column, group_responses, shared) ==
    [k \in 1..Len(shared) |->
        SharedPattern(kind, column, shared[k], Sharing(group_responses, shared[k]))]

\* _analyze_column_by_age_groups, _analyze_column_by_region and
\* _analyze_column_by_education, from the responses of the groups on
SharedPatterns(kind, column, group_responses) ==
    IF Len(group_responses) > 1
    THEN SharedPatternsOf(kind, column, group_responses, SharedResponses(group_responses))
    ELSE <<>>

\* the details of a gender_pattern: gender_responses
GenderDetails(group_responses) ==
    [gender \in {group_responses[k].group : k \in 1..Len(group_responses)} |->
        LET entry == group_responses[CHOOSE k \in 1..Len(group_responses) :
                                         group_responses[k].group = gender]
        IN  [response |-> entry.response, count |-> entry.count,
             percentage |-> entry.percentage]]

\* _analyze_column_by_gender, from the responses of the genders on
GenderPatterns(column, group_responses) ==
    IF /\ Len(group_responses) > 1
       /\ Cardinality({group_responses[k].response : k \in 1..Len(group_responses)}) > 1
    THEN <<[type |-> "gender_pattern",
            description |-> GenderDifferencesText \o ColumnChars[column] \o ResponsesText,
            confidence |-> DFromInt(75),
            sample_size |-> SumInts([k \in 1..Len(group_responses) |-> group_responses[k].size]),
            details |-> GenderDetails(group_responses)]>>
    ELSE <<>>

\* the patterns of one column by the groups of one kind
ColumnPatterns(kind, groups, column) ==
    IF kind = "gender" THEN GenderPatterns(column, GroupResponses(groups, column))
    ELSE SharedPatterns(kind, column, GroupResponses(groups, column))

\* the loop over the questions of _analyze_age_patterns and the like
PatternsOfGroups(kind, groups, questions) ==
    Flatten([k \in 1..Len(questions) |-> ColumnPatterns(kind, groups, questions[k])])

\* _analyze_age_patterns, _analyze_gender_patterns, _analyze_regional_patterns
\* and _analyze_education_patterns
PatternsBy(kind, data, cols) ==
    IF kind \notin Range(cols) THEN <<>>
    ELSE IF kind = "age" THEN PatternsOfGroups(kind, AgeGroups(data), ResponseColumns(cols))
    ELSE PatternsOfGroups(kind, GroupsBy(data, kind), ResponseColumns(cols))

\* _find_demographic_patterns
FindDemographicPatterns(data, cols) ==
    PatternsBy("age", data, cols) \o PatternsBy("gender", data, cols)
        \o PatternsBy("region", data, cols) \o PatternsBy("education", data, cols)

\* the distinct trimmed values of a column
TrimmedValues(data, column) ==
    {Strip(Str(Get(data[i], column))) :
        i \in {j \in 1..Len(data) : NonEmpty(Get(data[j], column))}}

\* word in response, for two texts
Contains(response, word) ==
    \E i \in 1..(Len(response) - Len(word) + 1) :
        SubSeq(response, i, i + Len(word) - 1) = word

ContainsOneOf(response, words) == \E word \in words : Contains(response, word)

\* _are_responses_related without the comparison of the two texts
AreResponsesOfOneSentiment(response1, response2) ==
    \/ /\ ContainsOneOf(StrLower(response1), positive_words)
       /\ ContainsOneOf(StrLower(response2), positive_words)
    \/ /\ ContainsOneOf(StrLower(response1), negative_words)
       /\ ContainsOneOf(StrLower(response2), negative_words)

\* _are_responses_related
AreResponsesRelated(response1, response2) ==
    \/ /\ ContainsOneOf(StrLower(response1), positive_words)
       /\ ContainsOneOf(StrLower(response2), positive_words)
    \/ /\ ContainsOneOf(StrLower(response1), negative_words)
       /\ ContainsOneOf(StrLower(response2), negative_words)
    \/ StrLower(response1) = StrLower(response2)

\* the records with a value in both columns
Answering(data, col1, col2) ==
    SelectSeq(data, LAMBDA row : NonEmpty(Get(row, col1)) /\ NonEmpty(Get(row, col2)))

\* matching_responses
Matching(answering, col1, col2) ==
    Cardinality({i \in 1..Len(answering) :
        AreResponsesRelated(Strip(Str(Get(answering[i], col1))),
                            Strip(Str(Get(answering[i], col2))))})

\* min(a, b) without the cap a
DMinUncapped(a, b) == b

\* min(a, b) of two floats
DMin(a, b) == IF DLess(b, a) THEN b ELSE a

\* the pattern of two columns of the given correlation strength, if any
CorrelationPattern(col1, col2, total_responses, correlation_strength) ==
    IF DLess(DDiv(6, 10), correlation_strength)
    THEN <<[type |-> "correlation_pattern",
            description |-> StrongCorrelationText \o ColumnChars[col1] \o AndText
                                \o ColumnChars[col2],
            confidence |-> DMin(DFromInt(90), DTimesHundred(correlation_strength)),
            sample_size |-> total_responses,
            correlation_strength |-> correlation_strength,
            columns |-> <<col1, col2>>]>>
    ELSE <<>>

CorrelationOf(col1, col2, answering) ==
    IF Len(answering) = 0 THEN <<>>
    ELSE CorrelationPattern(col1, col2, Len(answering),
                            DDiv(Matching(answering, col1, col2), Len(answering)))

\* _analyze_correlation: the pattern in a sequence, no pattern for None
AnalyzeCorrelation(data, col1, col2) ==
    IF \/ Cardinality(TrimmedValues(data, col1)) < 2
       \/ Cardinality(TrimmedValues(data, col2)) < 2
    THEN <<>>
    ELSE CorrelationOf(col1, col2, Answering(data, col1, col2))

\* the pairs of columns of _find_correlation_patterns, in the order of the
\* two loops
ColumnPairs(categorical_columns) ==
    Flatten([i \in 1..Len(categorical_columns) |->
                [k \in 1..(Len(categorical_columns) - i) |->
                    <<categorical_columns[i], categorical_columns[i + k]>>]])

CorrelationsOf(data, pairs) ==
    Flatten([k \in 1..Len(pairs) |-> AnalyzeCorrelation(data, pairs[k][1], pairs[k][2])])

\* _find_correlation_patterns
FindCorrelationPatterns(data, cols) ==
    CorrelationsOf(data, ColumnPairs(ResponseColumns(cols)))

\* f"{col}:{str(value).strip()}"
Token(col, value) == ColumnChars[col] \o <<":">> \o Strip(Str(value))

TokensOfColumns(row, answered) ==
    [k \in 1..Len(answered) |-> Token(answered[k], Get(row, answered[k]))]

\* the tokens of a record, in the order of the columns
TokensOf(row, cols) ==
    TokensOfColumns(row, SelectSeq(cols, LAMBDA col : NonEmpty(Get(row, col))))

\* tuple(sorted(combination)); the tokens of a record differ in the column
Combination(row, cols) == SortedStrs(Range(TokensOf(row, cols)))

\* response_combinations
ResponseCombinations(data, cols) ==
    SelectSeq([i \in 1..Len(data) |-> Combination(data[i], cols)],
              LAMBDA combination : combination # <<>>)

\* the number of keys that come before the key at place k when the keys
\* are put in the order of their counts, highest first, keys of one count
\* in their own order
CountedBefore(values, keys, k) ==
    Cardinality({j \in 1..Len(keys) :
        \/ CountOf(values, keys[j]) > CountOf(values, keys[k])
        \/ CountOf(values, keys[j]) = CountOf(values, keys[k]) /\ j < k})

\* Counter(values).most_common(n), the keys only
MostCommonKeys(values, keys, n) ==
    [place \in 1..Min(n, Len(keys)) |->
        keys[CHOOSE k \in 1..Len(keys) : CountedBefore(values, keys, k) = place - 1]]

\* percentage * 2
DTwice(x) == IF x = DZero THEN DZero ELSE [x EXCEPT !.exp = @ + 1]

\* the pattern of a combination of the given count and percentage, if any
CombinationPattern(combo, count, percentage) ==
    IF count > 1 /\ DLess(DFromInt(10), percentage)
    THEN <<[type |-> "combination_pattern",
            description |-> CommonCombinationText \o JoinWith(combo, <<",", " ">>),
            confidence |-> DMin(DFromInt(85), DTwice(percentage)),
            sample_size |-> count,
            percentage |-> percentage,
            combination |-> combo]>>
    ELSE <<>>

CombinationPatternOf(combo, count, total) ==
    CombinationPattern(combo, count, Percentage(count, total))

CombinationPatternsOf(response_combinations, common_combinations) ==
    Flatten([k \in 1..Len(common_combinations) |->
                CombinationPatternOf(common_combinations[k],
                                     CountOf(response_combinations, common_combinations[k]),
                                     Len(response_combinations))])

CommonCombinations(response_combinations) ==
    CombinationPatternsOf(response_combinations,
                          MostCommonKeys(response_combinations,
                                         FirstOccurrences(response_combinations), 3))

\* _find_combination_patterns
FindCombinationPatterns(data, cols) == CommonCombinations(ResponseCombinations(data, cols))

\* count <= total_responses * 0.05 with a threshold of 10%
IsOutlierBelowTenth(count, total_responses) == count * 10 <= total_responses /\ count > 0

\* count <= outlier_threshold and count > 0, the threshold total_responses *
\* 0.05.  The float 0.05 is a little above 1/20 and a whole number is a
\* float, so the rounded product is at least count exactly when
\* total_responses is at least 20 * count.
IsOutlier(count, total_responses) == count * 20 <= total_responses /\ count > 0

\* the entry of a value in outliers
Outlier(value, count, total_responses) ==
    [value |-> value, count |-> count, percentage |-> Percentage(count, total_responses)]

\* outliers: the rare values in the order of the Counter
Outliers(values, keys) ==
    [k \in 1..Len(keys) |-> Outlier(keys[k], CountOf(values, keys[k]), Len(values))]

RareKeys(values) ==
    SelectSeq(FirstOccurrences(values),
              LAMBDA value : IsOutlier(CountOf(values, value), Len(values)))

OutlierPattern(column, values, outliers) ==
    IF outliers = <<>> THEN <<>>
    ELSE <<[type |-> "outlier_pattern",
            description |-> OutlierResponsesText \o ColumnChars[column],
            confidence |-> DFromInt(70),
            sample_size |-> Len(values),
            outliers |-> outliers]>>

OutlierPatternOf(column, values) ==
    IF values = <<>> THEN <<>>
    ELSE OutlierPattern(column, values, Outliers(values, RareKeys(values)))

\* _analyze_outliers: the pattern in a sequence, no pattern for None
AnalyzeOutliers(data, column) == OutlierPatternOf(column, ValuesIn(data, column))

OutliersOf(data, questions) ==
    Flatten([k \in 1..Len(questions) |-> AnalyzeOutliers(data, questions[k])])

\* _find_outlier_patterns
FindOutlierPatterns(data, cols) == OutliersOf(data, ResponseColumns(cols))

\* the number of patterns that come before the pattern at place k when
\* the patterns are sorted by confidence, highest first, the later of two
\* patterns of one confidence first
SortedBeforeReversed(patterns, k) ==
    Cardinality({j \in 1..Len(patterns) :
        \/ DLess(patterns[k].confidence, patterns[j].confidence)
        \/ patterns[j].confidence = patterns[k].confidence /\ j > k})

\* the number of patterns that come before the pattern at place k when
\* the patterns are sorted by confidence, highest first: list.sort is
\* stable, also in reverse
SortedBefore(patterns, k) ==
    Cardinality({j \in 1..Len(patterns) :
        \/ DLess(patterns[k].confidence, patterns[j].confidence)
        \/ patterns[j].confidence = patterns[k].confidence /\ j < k})

\* patterns.sort(key=lambda x: x['confidence'], reverse=True)
SortByConfidence(patterns) ==
    [place \in 1..Len(patterns) |->
        patterns[CHOOSE k \in 1..Len(patterns) : SortedBefore(patterns, k) = place - 1]]

\* the patterns of find_patterns in the order in which they are found
DetectedPatterns(data, cols) ==
    FindDemographicPatterns(data, cols) \o FindCorrelationPatterns(data, cols)
        \o FindCombinationPatterns(data, cols) \o FindOutlierPatterns(data, cols)

\* find_patterns
FindPatterns(data, cols) ==
    IF data = <<>> THEN Return(<<>>)
    ELSE Return(SortByConfidence(DetectedPatterns(data, cols)))

(***************************************************************************)
(* analyze_all_text_columns.  The dictionary it returns is a function of   *)
(* the text columns.                                                       *)
(***************************************************************************)
\* survey_data[:10]
FirstTen(data) == SubSeq(data, 1, IF Len(data) < 10 THEN Len(data) ELSE 10)

\* the rows of the sample counted in total_count
Counted(sample, col) ==
    {i \in 1..Len(sample) :
        Get(sample[i], col) # None /\ Strip(Str(Get(sample[i], col))) # <<>>}

\* the rows of the sample counted in text_count
CountedAsText(sample, col) ==
    {i \in Counted(sample, col) : Len(Str(Get(sample[i], col))) > 20}

\* total_count > 0 and (text_count / total_count) > 0.3
IsTextColumnOf(text_count, total_count) ==
    total_count > 0 /\ DLess(DDiv(3, 10), DDiv(text_count, total_count))

IsTextColumn(sample, col) ==
    IsTextColumnOf(Cardinality(CountedAsText(sample, col)),
                   Cardinality(Counted(sample, col)))

\* text_columns
TextColumns(data) == {col \in Range(Keys(data)) : IsTextColumn(FirstTen(data), col)}

\* results
SentimentOfColumns(data, text_columns) ==
    [column \in text_columns |-> AnalyzeColumn(data, column).value]

\* analyze_all_text_columns of an analyzer that a call of analyze_column
\* leaves without its text columns
AnalyzeAllTextColumnsAfter(data) ==
    IF data = <<>> \/ call.op = "analyze_column" THEN Return(<<>>)
    ELSE Return(SentimentOfColumns(data, TextColumns(data)))

\* analyze_all_text_columns
AnalyzeAllTextColumns(data) ==
    IF data = <<>> THEN Return(<<>>)
    ELSE Return(SentimentOfColumns(data, TextColumns(data)))

(***************************************************************************)
(* analyze_text called on its own, as the unit tests call it.  A text is   *)
(* some words with one space between them; the words are two positive      *)
(* keywords (weights 2 and 1), a negative keyword, a negation, an          *)
(* intensifier and a word of no list, written with a capital and a comma.  *)
(***************************************************************************)
Good == <<"g", "o", "o", "d">>

Like == <<"l", "i", "k", "e">>

Bad == <<"b", "a", "d">>

Not == <<"n", "o", "t">>

Very == <<"v", "e", "r", "y">>

Um == <<"U", "m", ",">>

TextWords == {Good, Like, Bad, Not, Very, Um}

\* ' '.join(words)
RECURSIVE Join(_)
Join(words) ==
    IF words = <<>> THEN <<>>
    ELSE IF Len(words) = 1 THEN words[1]
    ELSE words[1] \o <<" ">> \o Join(Tail(words))

Texts == {Join(words) : words \in UNION {[1..n -> TextWords] : n \in 0..MaxWords}}

\* the values given to analyze_text: the texts, a blank text, None, 5 and 0
TextArgs ==
    {PyStr(text) : text \in Texts \cup {<<" ">>}}
        \cup {PyNone, PyInt(<<"5">>), PyInt(<<"0">>)}

InitText ==
    /\ survey_data = <<>>
    /\ columns = <<>>
    /\ \E text \in TextArgs : call = [op |-> "analyze_text", text |-> text]
    /\ result = [kind |-> "none"]
    /\ answers = NoAnswers(FALSE)

AnalyzeTextCall ==
    /\ call.op = "analyze_text"
    /\ result.kind = "none"
    /\ result' = AnalyzeText(call.text)
    /\ UNCHANGED <<survey_data, columns, call, answers>>

NextText == AnalyzeTextCall

SpecText == InitText /\ [][NextText]_vars

(***************************************************************************)
(* The columns of a dataset given to the sentiment analyzer: a column of   *)
(* free text and a column of one answer.  A text of the first column is    *)
(* positive (more than 20 characters long), negative or neutral, or blank. *)
(***************************************************************************)
Praise ==
    <<"r", "e", "a", "l", "l", "y", " ", "g", "o", "o", "d", " ", "a", "n", "d",
      " ", "h", "e", "l", "p", "f", "u", "l">>

FeedbackRaw == {Praise, Bad, Like, <<" ">>}

FeedbackTables ==
    UNION {[1..n -> [feedback : FeedbackRaw, satisfaction : {High}]] : n \in 0..MaxRecords}

InitColumn == \E raw \in FeedbackTables : Constructed(raw)

AnalyzeColumnCall ==
    \E column \in ColumnArgs :
        /\ CallsLeft
        /\ call' = [op |-> "analyze_column", column |-> column]
        /\ result' = AnalyzeColumn(survey_data, column)
        /\ Noted(call', result')
        /\ UNCHANGED <<survey_data, columns>>

NextSentiment == AnalyzeColumnCall

SpecColumn == InitColumn /\ [][NextSentiment]_vars

(***************************************************************************)
(* The datasets given to the pattern detector: some copies of each of four *)
(* kinds of record, kind by kind, as typed into the file.  Two kinds       *)
(* answer A to the first question from two age groups, genders, regions    *)
(* and levels of education; the third answers B and is of the gender,      *)
(* region and education of the first, written in lower case; the fourth    *)
(* answers B and tells nothing else but an age below every age group, its  *)
(* other values being blank or 'na'.                                       *)
(***************************************************************************)
PatternKinds ==
    <<[age |-> <<"2", "0">>, gender |-> Male, region |-> <<"N", "o", "r", "t", "h">>,
       education |-> <<"C", "o", "l", "l", "e", "g", "e">>, q1 |-> <<"A">>, q2 |-> <<"a">>],
      [age |-> <<"3", "0">>, gender |-> Female, region |-> <<"S", "o", "u", "t", "h">>,
       education |-> <<"S", "c", "h", "o", "o", "l">>, q1 |-> <<"A">>, q2 |-> <<"b">>],
      [age |-> <<"7", "0">>, gender |-> <<"m", "a", "l", "e">>,
       region |-> <<"n", "o", "r", "t", "h">>,
       education |-> <<"c", "o", "l", "l", "e", "g", "e">>, q1 |-> <<"B">>, q2 |-> <<"b">>],
      [age |-> <<"1", "7">>, gender |-> <<"n", "a">>, region |-> <<" ">>,
       education |-> <<"n", "a">>, q1 |-> <<"B">>, q2 |-> <<" ">>]>>

\* the table with copies[k] rows of kind k, kind by kind
RECURSIVE CopiesFrom(_, _)
CopiesFrom(copies, k) ==
    IF k > Len(PatternKinds) THEN <<>>
    ELSE Repeat(PatternKinds[k], copies[k]) \o CopiesFrom(copies, k + 1)

\* how often a kind of record occurs in a table
Copies == {0, 1, 10, MaxCopies}

PatternTables == {CopiesFrom(copies, 1) : copies \in [1..Len(PatternKinds) -> Copies]}

InitPatterns == \E raw \in PatternTables : Constructed(raw)

FindPatternsCall ==
    /\ CallsLeft
    /\ call' = [op |-> "find_patterns"]
    /\ result' = FindPatterns(survey_data, columns)
    /\ Noted(call', result')
    /\ UNCHANGED <<survey_data, columns>>

NextPatterns == FindPatternsCall

SpecPatterns == InitPatterns /\ [][NextPatterns]_vars

(***************************************************************************)
(* The analyzers of the program on one dataset, as main.py constructs them *)
(* on the dataset it loaded, with the history kept.  The dataset has a     *)
(* column of free text and a column of one answer, or no record.           *)
(***************************************************************************)
FrameTables ==
    {<<>>,
     <<[feedback |-> Praise, satisfaction |-> High],
       [feedback |-> Praise, satisfaction |-> High],
       [feedback |-> Bad, satisfaction |-> Low]>>}

InitFrame ==
    \E raw \in FrameTables :
        /\ survey_data = CleanAndValidateData(raw)
        /\ columns = Keys(CleanAndValidateData(raw))
        /\ call = [op |-> "__init__"]
        /\ result = [kind |-> "none"]
        /\ answers = NoAnswers(TRUE)

AnalyzeAllTextColumnsCall ==
    /\ CallsLeft
    /\ call' = [op |-> "analyze_all_text_columns"]
    /\ result' = AnalyzeAllTextColumns(survey_data)
    /\ Noted(call', result')
    /\ UNCHANGED <<survey_data, columns>>

NextFrame ==
    \/ CrossTabulateCall
    \/ ChiSquareTestCall
    \/ CorrelationAnalysisCall
    \/ AnalyzeColumnCall
    \/ AnalyzeAllTextColumnsCall
    \/ FindPatternsCall

SpecFrame == InitFrame /\ [][NextFrame]_vars

(***************************************************************************)
(* _clean_and_validate_data called on its own, as the unit tests call it,  *)
(* on the rows csv.DictReader read.  A value of a row is a text as typed   *)
(* into the file (with blanks around it, blank, empty, or a word for "not  *)
(* available") or None, the value of a row shorter than the header.        *)
(***************************************************************************)
RawValues ==
    {<<"x">>, <<" ", "x">>, <<" ">>, <<>>, <<"N", "/", "A">>, None}

RawTables == UNION {[1..n -> [q1 : RawValues, q2 : RawValues]] : n \in 0..MaxRawRows}

\* _clean_and_validate_data: None for no row and for no valid row, the
\* cleaned rows otherwise; is_none tells the two apart
CleanAndValidateDataOrNone(data) ==
    IF data = <<>> \/ CleanAndValidateData(data) = <<>>
    THEN Return([is_none |-> TRUE, rows |-> <<>>])
    ELSE Return([is_none |-> FALSE, rows |-> CleanAndValidateData(data)])

InitClean ==
    /\ survey_data = <<>>
    /\ columns = <<>>
    /\ \E data \in RawTables : call = [op |-> "_clean_and_validate_data", data |-> data]
    /\ result = [kind |-> "none"]
    /\ answers = NoAnswers(FALSE)

CleanAndValidateDataCall ==
    /\ call.op = "_clean_and_validate_data"
    /\ result.kind = "none"
    /\ result' = CleanAndValidateDataOrNone(call.data)
    /\ UNCHANGED <<survey_data, columns, call, answers>>

NextClean == CleanAndValidateDataCall

SpecClean == InitClean /\ [][NextClean]_vars

(***************************************************************************)
(* The datasets of the demographic passes: five people of five age groups, *)
(* four regions (the last written in lower case), five levels of education *)
(* and four genders (one written in two ways), each with no, one or two    *)
(* records that differ in the answer to the first question, which can be   *)
(* blank, and a record or none of a stranger who tells an age and two      *)
(* answers only.  The ages                                                 *)
(* of the people are the first or the last of their groups; the age of the *)
(* stranger is below every group, in the last group, has a sign, or is     *)
(* not available.                                                          *)
(***************************************************************************)
People ==
    <<[age |-> <<"1", "8">>, gender |-> <<"m", "a", "l", "e">>, region |-> <<"N", "o", "r", "t", "h">>,
       education |-> <<"P", "r", "i", "m", "a", "r", "y">>, q2 |-> <<"x">>],
      [age |-> <<"2", "6">>, gender |-> <<"F", "e", "m", "a", "l", "e">>, region |-> <<"S", "o", "u", "t", "h">>,
       education |-> <<"S", "e", "c", "o", "n", "d", "a", "r", "y">>, q2 |-> <<"x">>],
      [age |-> <<"4", "5">>, gender |-> <<"M", "a", "l", "e">>, region |-> <<"E", "a", "s", "t">>,
       education |-> <<"C", "o", "l", "l", "e", "g", "e">>, q2 |-> <<"y">>],
      [age |-> <<"4", "6">>, gender |-> <<"F">>, region |-> <<"W", "e", "s", "t">>,
       education |-> <<"M", "a", "s", "t", "e", "r", "s">>, q2 |-> <<"y">>],
      [age |-> <<"6", "5">>, gender |-> <<"o", "t", "h", "e", "r">>, region |-> <<"n", "o", "r", "t", "h">>,
       education |-> <<"P", "h", "d">>, q2 |-> <<"y">>]>>

\* the answers of one of the people to the first question, record by
\* record; the last of the people has a record
AnswerLists == {<<>>, <<<<"A">>>>, <<<<"B">>, <<"A">>>>}

LastAnswerLists == {<<<<"A">>>>, <<<<" ">>, <<"A">>>>, <<<<" ">>>>}

StrangerAges == {<<"1", "7">>, <<"6", "6">>, <<"+", "3", "0">>, <<"n", "a">>}

Strangers ==
    {<<>>} \cup
    {<<[age |-> age, gender |-> <<"n", "a">>, region |-> <<" ">>,
        education |-> <<"n", "a">>, q1 |-> <<"A">>, q2 |-> <<"x">>]>> :
         age \in StrangerAges}

\* the records of a person, one for each answer
RecordsOf(person, answer_list) ==
    [i \in 1..Len(answer_list) |->
        [age |-> person.age, gender |-> person.gender, region |-> person.region,
         education |-> person.education, q1 |-> answer_list[i], q2 |-> person.q2]]

\* the records of the people from the k-th on
RECURSIVE RecordsFrom(_, _)
RecordsFrom(answer_lists, k) ==
    IF k > Len(People) THEN <<>>
    ELSE RecordsOf(People[k], answer_lists[k]) \o RecordsFrom(answer_lists, k + 1)

BucketTables ==
    {RecordsFrom(Append(answer_lists, last), 1) \o stranger :
        answer_lists \in [1..(Len(People) - 1) -> AnswerLists],
        last \in LastAnswerLists, stranger \in Strangers}

InitBuckets == \E raw \in BucketTables : Constructed(raw)

SpecBuckets == InitBuckets /\ [][NextPatterns]_vars

(***************************************************************************)
(* The datasets of the combination pass: up to MaxRecords copies of each   *)
(* of four kinds of record with two answers, kind by kind, and then no     *)
(* record or MaxRecords records that answer no question.                   *)
(***************************************************************************)
AnswerKinds ==
    <<[q1 |-> <<"x">>, q2 |-> <<"y">>], [q1 |-> <<"x">>, q2 |-> <<"z">>],
      [q1 |-> <<"w">>, q2 |-> <<"y">>], [q1 |-> <<"w">>, q2 |-> <<"z">>]>>

NoAnswer == [q1 |-> <<" ">>, q2 |-> <<>>]

RECURSIVE AnswersFrom(_, _)
AnswersFrom(copies, k) ==
    IF k > Len(AnswerKinds) THEN <<>>
    ELSE Repeat(AnswerKinds[k], copies[k]) \o AnswersFrom(copies, k + 1)

CombinationTables ==
    {AnswersFrom(copies, 1) \o Repeat(NoAnswer, silent) :
        copies \in [1..Len(AnswerKinds) -> 0..MaxRecords], silent \in {0, MaxRecords}}

InitCombinations == \E raw \in CombinationTables : Constructed(raw)

SpecCombinations == InitCombinations /\ [][NextPatterns]_vars

(***************************************************************************)
(* The session of the command line: SurveyAnalyzerCLI.run reads a menu     *)
(* choice, carries the option out and reads the next one, until the choice *)
(* is 7.  Here survey_data is the dataset of the session, None at first    *)
(* (is_none tells None from a list of records); call is the last choice    *)
(* with what was typed, result what the option came to.  What is typed as  *)
(* the path of a file comes with what the file system holds there.         *)
(***************************************************************************)
NoDataset == [is_none |-> TRUE, rows |-> <<>>]

\* the rows of the files: at most MaxRawRows rows of an age and an answer
CsvTables ==
    UNION {[1..n -> [age : {<<"3", "0">>, <<"x">>}, q1 : {<<"A">>, <<"B">>, <<" ">>}]] :
              n \in 0..MaxRawRows}

\* what a path can lead to: nothing, a directory, a file of no byte or a
\* file that csv.DictReader reads as the rows
FoundAt ==
    {[kind |-> kind, rows |-> <<>>] : kind \in {"missing", "directory", "empty"}}
        \cup {[kind |-> "csv", rows |-> rows] : rows \in CsvTables}

\* what is typed at "Enter the path to your CSV file: "
TypedPaths ==
    {[text |-> text, found |-> [kind |-> "missing", rows |-> <<>>]] :
        text \in {<<>>, <<" ">>}}
        \cup {[text |-> <<"d">>, found |-> found] : found \in FoundAt}

\* DataLoader._validate_file
ValidateFile(found) == found.kind = "csv"

\* DataLoader.load_csv: None for a path that is no file of at least one
\* byte, for a file without a row and for a file without a valid row
LoadCsv(found) ==
    IF ~ValidateFile(found) THEN NoDataset
    ELSE IF found.rows = <<>> THEN NoDataset
    ELSE CleanAndValidateDataOrNone(found.rows).value

InitCli ==
    /\ survey_data = NoDataset
    /\ columns = <<>>
    /\ call = [op |-> "__init__"]
    /\ result = [kind |-> "none"]
    /\ answers = NoAnswers(FALSE)

\* the loop of run has not met the choice 7
Running == call.op # "exit"

\* choice 1, load_survey_data: False for no path and for a path that does
\* not exist; otherwise the dataset becomes what load_csv returns, and the
\* option returns whether that is a dataset
LoadSurveyData ==
    \E path \in TypedPaths :
        /\ Running
        /\ call' = [op |-> "load_survey_data", path |-> path]
        /\ IF Strip(path.text) = <<>> \/ path.found.kind = "missing"
           THEN /\ result' = Return(FALSE)
                /\ UNCHANGED survey_data
           ELSE /\ survey_data' = LoadCsv(path.found)
                /\ result' = Return(~LoadCsv(path.found).is_none)
        /\ UNCHANGED <<columns, answers>>

\* the options that analyze the dataset of the session
AnalysisOptions ==
    {"view_summary_statistics", "analyze_sentiment", "cross_tabulate_results",
     "detect_patterns", "generate_report"}

\* choices 2 to 6: "No data loaded" without a dataset, otherwise the
\* analyzers of the option are constructed on the dataset of the session
AnalysisChoice ==
    \E option \in AnalysisOptions :
        /\ Running
        /\ call' = [op |-> option]
        /\ result' = IF survey_data.is_none THEN Return([no_data |-> TRUE, rows |-> <<>>])
                     ELSE Return([no_data |-> FALSE, rows |-> survey_data.rows])
        /\ UNCHANGED <<survey_data, columns, answers>>

\* any other choice than 1 to 7
InvalidChoice ==
    /\ Running
    /\ call' = [op |-> "invalid_choice"]
    /\ result' = [kind |-> "none"]
    /\ UNCHANGED <<survey_data, columns, answers>>

\* choice 7: sys.exit(0)
ExitChoice ==
    /\ Running
    /\ call' = [op |-> "exit"]
    /\ result' = [kind |-> "none"]
    /\ UNCHANGED <<survey_data, columns, answers>>

NextCli == LoadSurveyData \/ AnalysisChoice \/ InvalidChoice \/ ExitChoice

SpecCli == InitCli /\ [][NextCli]_vars

(***************************************************************************)
(* _analyze_age_patterns called on its own, on datasets of at most         *)
(* MaxRawRows records with an age and an answer as typed into the file:    *)
(* the ages at the ends of the ranges, an age below and ages above them, a *)
(* signed age and no age.  The step keeps the age_groups the method built  *)
(* next to the patterns it returns.                                        *)
(***************************************************************************)
RawAges ==
    {<<"1", "7">>, <<"1", "8">>, <<"2", "5">>, <<"2", "6">>, <<"3", "5">>, <<"3", "6">>,
     <<"4", "5">>, <<"4", "6">>, <<"5", "5">>, <<"5", "6">>, <<"6", "5">>, <<"6", "6">>,
     <<"1", "2", "0">>, <<"+", "3", "0">>, <<"n", "a">>, <<>>}

AgeTables ==
    UNION {[1..n -> [age : RawAges, q1 : {<<"A">>, <<"B">>}]] : n \in 0..MaxRawRows}

InitAges == \E raw \in AgeTables : Constructed(raw)

AnalyzeAgePatternsCall ==
    /\ CallsLeft
    /\ call' = [op |-> "_analyze_age_patterns"]
    /\ result' = [kind |-> "return",
                  value |-> PatternsBy("age", survey_data, columns),
                  age_groups |-> AgeGroups(survey_data)]
    /\ Noted(call', result')
    /\ UNCHANGED <<survey_data, columns>>

NextAges == AnalyzeAgePatternsCall

SpecAges == InitAges /\ [][NextAges]_vars

(***************************************************************************)
(* Properties.  Each is stated over the call made last and what it handed  *)
(* back, against the dataset as the specification describes it: a value is *)
(* absent (None), or a text; a text is trimmed before it is compared.      *)
(***************************************************************************)
Called(op) == call.op = op

Returned == result.kind = "return"

ColumnNotFound == result = Raise("ValueError: Column not found")

\* col1 or col2 is not a key of the first record
MissingColumn ==
    \/ survey_data = <<>>
    \/ call.col1 \notin DOMAIN survey_data[1]
    \/ call.col2 \notin DOMAIN survey_data[1]

\* a non-empty value
Present(v) == v # None /\ v # <<>>

Trimmed(v) == IF v = None THEN None ELSE Strip(v)

\* the distinct trimmed non-empty values of a column
DistinctValues(col) ==
    {Trimmed(survey_data[i][col]) :
        i \in {j \in 1..Len(survey_data) : Present(survey_data[j][col])}}

\* the records in which both columns are non-empty
BothPresent(col1, col2) ==
    {i \in 1..Len(survey_data) :
        Present(survey_data[i][col1]) /\ Present(survey_data[i][col2])}

\* the sum of the cells of a table that are neither header nor label
InteriorSum(table) ==
    SumInts([i \in 1..(Len(table) - 1) |-> SumInts(Tail(table[i + 1]))])

\* ascending lexicographic order of two texts, by code point
LexLess(a, b) ==
    \E k \in 1..Len(b) :
        /\ \A i \in 1..(k - 1) : i <= Len(a) /\ a[i] = b[i]
        /\ k = Len(a) + 1 \/ (k <= Len(a) /\ Ord(a[k]) < Ord(b[k]))

\* the dataset of the scenario: 3 records Male/High and 3 records Female/Low
Scenario ==
    /\ Len(survey_data) = 6
    /\ Cardinality({i \in 1..6 :
           survey_data[i] = [gender |-> Male, satisfaction |-> High]}) = 3
    /\ Cardinality({i \in 1..6 :
           survey_data[i] = [gender |-> Female, satisfaction |-> Low]}) = 3

ScenarioCall(op) ==
    Scenario /\ call = [op |-> op, col1 |-> "gender", col2 |-> "satisfaction"]

\* the data rows are labelled Female then Male, each with cells summing to 3
RowsOfThree ==
    /\ Returned
    /\ Len(result.value) = 3
    /\ result.value[2][1] = Female /\ SumInts(Tail(result.value[2])) = 3
    /\ result.value[3][1] = Male /\ SumInts(Tail(result.value[3])) = 3

\* C1, as stated: on the scenario's dataset chi_square_test reports
\* significant = true, and cross_tabulate has the rows Female then Male, each
\* summing to 3.
C1_Significant ==
    /\ ScenarioCall("chi_square_test") =>
           Returned /\ result.value.significant = TRUE
    /\ ScenarioCall("cross_tabulate") => RowsOfThree

\* C1, amended: on the scenario's dataset chi_square_test reports the
\* statistic 6 with df 1, the p-value 0.4 and significant = false, and
\* cross_tabulate has the rows Female then Male, each summing to 3.
C1_NotSignificant ==
    /\ ScenarioCall("chi_square_test") =>
           /\ Returned
           /\ result.value.chi_square = FromInt(6)
           /\ result.value.df = 1
           /\ result.value.p_value = Rat(2, 5)
           /\ result.value.significant = FALSE
    /\ ScenarioCall("cross_tabulate") => RowsOfThree

C1_Witness == ScenarioCall("chi_square_test") /\ Returned

\* the error result of chi_square_test
IsErrorResult ==
    /\ Returned
    /\ "error" \in DOMAIN result.value
    /\ result.value.chi_square = Zero
    /\ result.value.p_value = One
    /\ result.value.df = 0
    /\ result.value.significant = FALSE

\* C2: chi_square_test on existing columns returns the error result whenever
\* either column has fewer than 2 distinct non-empty values, or fewer than 5
\* observations are counted in the table.
C2_ErrorResult ==
    (/\ Called("chi_square_test")
     /\ ~MissingColumn
     /\ \/ Cardinality(DistinctValues(call.col1)) < 2
        \/ Cardinality(DistinctValues(call.col2)) < 2
        \/ Cardinality(BothPresent(call.col1, call.col2)) < 5)
    => IsErrorResult

\* C3: every data row of cross_tabulate on existing columns has
\* 1 + (number of distinct non-empty values of col2) cells, as many as the
\* header row, and the interior cells sum to the number of records in which
\* both columns are non-empty.
C3_RowsAndSum ==
    (Called("cross_tabulate") /\ ~MissingColumn) =>
        /\ Returned
        /\ \A i \in 2..Len(result.value) :
               /\ Len(result.value[i]) = 1 + Cardinality(DistinctValues(call.col2))
               /\ Len(result.value[i]) = Len(result.value[1])
        /\ InteriorSum(result.value) = Cardinality(BothPresent(call.col1, call.col2))

C3_Witness ==
    /\ Called("cross_tabulate") /\ ~MissingColumn /\ Returned
    /\ Len(result.value) = 3
    /\ Len(result.value[1]) = 3
    /\ InteriorSum(result.value) = 2
    /\ Len(survey_data) = 3

\* the number of records whose trimmed col1 is val1 and trimmed col2 is val2
Occurrences(col1, col2, val1, val2) ==
    Cardinality({r \in 1..Len(survey_data) :
        /\ Trimmed(survey_data[r][col1]) = val1
        /\ Trimmed(survey_data[r][col2]) = val2})

\* the cells of a sequence of texts ascend, no two equal
Ascending(labels) ==
    \A i \in 1..(Len(labels) - 1) : LexLess(labels[i], labels[i + 1])

\* the labels of the data rows of a table
RowLabels(table) == [i \in 1..(Len(table) - 1) |-> table[i + 1][1]]

\* C4: cross_tabulate returns the header row of the empty label and the
\* distinct trimmed non-empty values of col2 in ascending lexicographic
\* order, then one data row per distinct trimmed non-empty value of col1 in
\* ascending lexicographic order; a row starts with its value, and its cell
\* under v2 is the number of records whose trimmed col1 is the row's value
\* and whose trimmed col2 is v2.
C4_SortedCounts ==
    (Called("cross_tabulate") /\ ~MissingColumn) =>
        /\ Returned
        /\ result.value[1][1] = <<>>
        /\ Range(Tail(result.value[1])) = DistinctValues(call.col2)
        /\ Ascending(Tail(result.value[1]))
        /\ Range(RowLabels(result.value)) = DistinctValues(call.col1)
        /\ Ascending(RowLabels(result.value))
        /\ \A i \in 2..Len(result.value) :
               /\ Len(result.value[i]) = Len(result.value[1])
               /\ \A j \in 2..Len(result.value[1]) :
                      result.value[i][j] =
                          Occurrences(call.col1, call.col2,
                                      result.value[i][1], result.value[1][j])

\* a table of two rows and two columns with a count of 2 on unsorted records
C4_Witness ==
    /\ Called("cross_tabulate") /\ ~MissingColumn /\ Returned
    /\ call.col1 # call.col2
    /\ Len(result.value) = 3
    /\ Len(result.value[1]) = 3
    /\ \E i, j \in 2..3 : result.value[i][j] = 2
    /\ LexLess(Trimmed(survey_data[2][call.col1]), Trimmed(survey_data[1][call.col1]))

\* C5: cross_tabulate and chi_square_test fail with the column-not-found
\* error, and return nothing, if and only if col1 or col2 is not a key of
\* the first record; on a dataset of no record every call fails so.
C5_ColumnNotFound ==
    (Called("cross_tabulate") \/ Called("chi_square_test")) =>
        /\ ColumnNotFound <=> MissingColumn
        /\ Returned <=> ~MissingColumn

C5_Witness ==
    /\ Called("chi_square_test")
    /\ survey_data # <<>>
    /\ call.col1 \in DOMAIN survey_data[1]
    /\ call.col2 \notin DOMAIN survey_data[1]
    /\ ColumnNotFound

\* C6: correlation_analysis, chi_square_test and cross_tabulate each return a
\* result on every validated dataset and every choice of columns; the only
\* failure raised is the column-not-found error of cross_tabulate and
\* chi_square_test.
C6_Total ==
    result.kind # "none" =>
        \/ Returned
        \/ /\ Called("cross_tabulate") \/ Called("chi_square_test")
           /\ ColumnNotFound

\* C7: the p-value reported by chi_square_test is 1.0 when df <= 0, is
\* 1.0 - statistic/(2*df) when df > 0 and statistic < df, and is
\* max(0, 1.0 - statistic/(10*df)) when df > 0 and statistic >= df, where df
\* is (rows-1)*(cols-1) of the observed matrix; significant is exactly
\* (p-value < 0.05).
C7_PValue ==
    (Called("chi_square_test") /\ Returned) =>
        /\ result.value.df <= 0 => result.value.p_value = One
        /\ (result.value.df > 0
              /\ RLess(result.value.chi_square, FromInt(result.value.df))) =>
               result.value.p_value =
                   RSub(One, RDiv(result.value.chi_square, FromInt(2 * result.value.df)))
        /\ (result.value.df > 0
              /\ RLeq(FromInt(result.value.df), result.value.chi_square)) =>
               result.value.p_value =
                   RMax(Zero, RSub(One, RDiv(result.value.chi_square,
                                             FromInt(10 * result.value.df))))
        /\ "observed" \in DOMAIN result.value =>
               result.value.df = (Len(result.value.observed) - 1)
                                   * (Len(result.value.observed[1]) - 1)
        /\ result.value.significant = RLess(result.value.p_value, Rat(1, 20))

\* a significant result of a test that was carried out
C7_Witness ==
    /\ Called("chi_square_test") /\ Returned
    /\ result.value.df > 0
    /\ result.value.significant

\* C8: for every statistic >= 0 and every integer df, _chi_square_p_value
\* returns a value in [0, 1]: exactly 1.0 when df <= 0, more than 0 when
\* statistic < df, and less than 1 when statistic >= df > 0.
C8_Range ==
    (Called("_chi_square_p_value") /\ Returned) =>
        /\ RLeq(Zero, result.value) /\ RLeq(result.value, One)
        /\ call.df <= 0 => result.value = One
        /\ RLess(call.chi_square, FromInt(call.df)) => RLess(Zero, result.value)
        /\ (call.df > 0 /\ RLeq(FromInt(call.df), call.chi_square)) =>
               RLess(result.value, One)

\* a statistic beyond ten times df: the value is held at 0
C8_Witness ==
    /\ Called("_chi_square_p_value") /\ Returned
    /\ call.df > 0
    /\ RLess(FromInt(10 * call.df), call.chi_square)
    /\ result.value = Zero

\* the value of a column in a record, absent when the record has no such key
ValueOf(i, col) ==
    IF col \in DOMAIN survey_data[i] THEN survey_data[i][col] ELSE None

\* a non-empty value that parses as a number
Numeric(v) == Present(v) /\ ParseFloat(v).ok

\* the records whose two values are paired
Paired(col1, col2) ==
    {i \in 1..Len(survey_data) :
        Numeric(ValueOf(i, col1)) /\ Numeric(ValueOf(i, col2))}

\* C9: correlation_analysis pairs the two values of a record only when both
\* are non-empty and parse as numbers, and skips every other record without
\* failing; with fewer than 2 pairs it returns an error result with
\* correlation 0.0 and sample_size 0, and otherwise sample_size is the
\* number of pairs.
C9_Pairs ==
    Called("correlation_analysis") =>
        /\ Returned
        /\ Cardinality(Paired(call.col1, call.col2)) < 2 =>
               /\ "error" \in DOMAIN result.value
               /\ result.value.correlation = ZeroCoefficient
               /\ result.value.sample_size = 0
        /\ Cardinality(Paired(call.col1, call.col2)) >= 2 =>
               result.value.sample_size = Cardinality(Paired(call.col1, call.col2))

\* all elements are equal: zero variance
Constant(x) == \A i, j \in 1..Len(x) : x[i] = x[j]

\* no element is beyond the numbers whose squares a double holds
Finite(x) == \A i \in 1..Len(x) : ~IsHuge(x[i])

\* y = a * x + b for a non-constant x, with a > 0 (sign 1) or a < 0 (sign -1)
Linear(x, y, sign) ==
    /\ Finite(x) /\ Finite(y)
    /\ \E p, q \in 1..Len(x) :
           /\ x[p] # x[q]
           /\ RLess(Zero, RMul(FromInt(sign),
                               RMul(RSub(y[q], y[p]), RSub(x[q], x[p]))))
           /\ \A i \in 1..Len(x) :
                  RMul(RSub(y[i], y[p]), RSub(x[q], x[p]))
                      = RMul(RSub(y[q], y[p]), RSub(x[i], x[p]))

\* the coefficient num / sqrt(rad) is 1 (sign 1) or -1 (sign -1)
IsUnit(c, sign) ==
    /\ RLess(Zero, RMul(FromInt(sign), c.num))
    /\ RMul(c.num, c.num) = c.rad

\* C10: for x and y of equal length n >= 2, _calculate_correlation returns
\* exactly 0.0 when x or y has zero variance, 1 when y is an increasing
\* linear function of a non-constant x, and -1 when y is a decreasing linear
\* function of a non-constant x.
C10_Values ==
    (/\ Called("_calculate_correlation")
     /\ result.kind # "none"
     /\ Len(call.x) = Len(call.y)
     /\ Len(call.x) >= 2) =>
        /\ Returned
        /\ (Constant(call.x) \/ Constant(call.y)) => result.value = ZeroCoefficient
        /\ Linear(call.x, call.y, 1) => IsUnit(result.value, 1)
        /\ Linear(call.x, call.y, 0 - 1) => IsUnit(result.value, 0 - 1)

\* the value given to analyze_text is a text
IsText == call.text.type = "str"

\* C11: analyze_text called with '', with None or with a value that is no
\* text returns sentiment 'neutral', score 0, no positive and no negative
\* word and confidence 0, and raises nothing.
C11_NoText ==
    Called("analyze_text") /\ result.kind # "none"
        /\ (~IsText \/ call.text.value = <<>>) =>
        /\ Returned
        /\ result.value.sentiment = "neutral"
        /\ result.value.score = Zero
        /\ result.value.positive_words = <<>>
        /\ result.value.negative_words = <<>>
        /\ result.value.confidence = Zero

\* analyze_text has returned for the number 5
C11_Witness ==
    Called("analyze_text") /\ call.text = PyInt(<<"5">>) /\ Returned

\* the words of the text given to analyze_text, as the analyzer reads them
WordsRead == ExtractWords(CleanText(call.text.value))

\* analyze_text has returned for a text of at least one character
TextAnalyzed ==
    Called("analyze_text") /\ Returned /\ IsText /\ call.text.value # <<>>

IsIntensifier(word) == word \in intensifier_words

\* one of the up to three words just before the word at index i is a negation
NegationBefore(words, i) ==
    \E back \in 1..3 : i - back >= 1 /\ words[i - back] \in negation_words

\* what the word at index i adds to the sum of the keywords
Contribution(words, i) ==
    IF IsIntensifier(words[i]) THEN 0
    ELSE IF words[i] \in DOMAIN positive_keywords
    THEN IF NegationBefore(words, i) THEN 0 - positive_keywords[words[i]]
         ELSE positive_keywords[words[i]]
    ELSE IF words[i] \in DOMAIN negative_keywords
    THEN IF NegationBefore(words, i) THEN negative_keywords[words[i]]
         ELSE 0 - negative_keywords[words[i]]
    ELSE 0

KeywordSum(words) == SumInts([i \in 1..Len(words) |-> Contribution(words, i)])

\* the word at index i counts for the sentiment (TRUE) or against it (FALSE)
CountsAs(words, i, positive) ==
    /\ ~IsIntensifier(words[i])
    /\ \/ words[i] \in DOMAIN positive_keywords
            /\ NegationBefore(words, i) = ~positive
       \/ words[i] \in DOMAIN negative_keywords
            /\ words[i] \notin DOMAIN positive_keywords
            /\ NegationBefore(words, i) = positive

\* the words up to index i that count for or against, in the order of the text
RECURSIVE WordsCounting(_, _, _)
WordsCounting(words, i, positive) ==
    IF i = 0 THEN <<>>
    ELSE IF CountsAs(words, i, positive)
    THEN Append(WordsCounting(words, i - 1, positive), words[i])
    ELSE WordsCounting(words, i - 1, positive)

IsNegative(score) == RLess(score, Zero)

\* C12: a word that is no intensifier is negated exactly when one of the up
\* to three words just before it (intensifiers among them) is a negation; a
\* negated positive keyword takes its weight off the score and is listed in
\* negative_words, a negated negative keyword adds its weight and is listed
\* in positive_words; 'not good' has a negative score and is not positive.
C12_Negation ==
    TextAnalyzed =>
        /\ result.value.positive_words = WordsCounting(WordsRead, Len(WordsRead), TRUE)
        /\ result.value.negative_words = WordsCounting(WordsRead, Len(WordsRead), FALSE)
        /\ IsNegative(result.value.score) = (KeywordSum(WordsRead) < 0)
        /\ (result.value.score = Zero) = (KeywordSum(WordsRead) = 0)
        /\ call.text.value = Join(<<Not, Good>>) =>
               /\ IsNegative(result.value.score)
               /\ result.value.sentiment # "positive"
               /\ result.value.negative_words = <<Good>>

\* 'not very Um, good': the negation three words before 'good', an
\* intensifier in between
C12_Witness ==
    /\ TextAnalyzed
    /\ call.text.value = Join(<<Not, Very, Um, Good>>)
    /\ result.value.negative_words = <<Good>>
    /\ IsNegative(result.value.score)

\* the number of intensifiers among the words
IntensifierCount(words) ==
    Cardinality({i \in 1..Len(words) : IsIntensifier(words[i])})

\* the score of the text with one intensifier put before it
ScoreWithIntensifier(text) ==
    AnalyzeText(PyStr(Very \o <<" ">> \o text)).value.score

\* C13: the score is the sum of the keywords times (1 + 0.2 k), k the number
\* of intensifiers anywhere in the text, which add nothing themselves; one
\* intensifier put before a text of non-zero score keeps the sign of the
\* score and makes it strictly larger in magnitude.
C13_Intensifiers ==
    TextAnalyzed =>
        /\ result.value.score =
               Rat(KeywordSum(WordsRead) * (5 + IntensifierCount(WordsRead)), 5)
        /\ RLess(Zero, result.value.score) =>
               RLess(result.value.score, ScoreWithIntensifier(call.text.value))
        /\ IsNegative(result.value.score) =>
               RLess(ScoreWithIntensifier(call.text.value), result.value.score)

\* 'very bad very': a score of -2 times 1.4, and of -2 times 1.6 with one
\* more intensifier
C13_Witness ==
    /\ TextAnalyzed
    /\ call.text.value = Join(<<Very, Bad, Very>>)
    /\ result.value.score = Rat(0 - 14, 5)
    /\ ScoreWithIntensifier(call.text.value) = Rat(0 - 16, 5)

\* C14: the sentiment is 'positive' exactly when the score is above 1.0 and
\* 'negative' exactly when it is below -1.0, 'neutral' otherwise; a score of
\* exactly 1.0 or -1.0 (one keyword of weight 1, no intensifier) is neutral.
C14_Thresholds ==
    Called("analyze_text") /\ Returned =>
        /\ (result.value.sentiment = "positive") = RLess(One, result.value.score)
        /\ (result.value.sentiment = "negative") =
               RLess(result.value.score, FromInt(0 - 1))
        /\ result.value.sentiment \in {"positive", "negative", "neutral"}
        /\ result.value.score \in {One, FromInt(0 - 1)} =>
               result.value.sentiment = "neutral"

\* 'not like': a score of exactly -1.0
C14_Witness ==
    /\ TextAnalyzed
    /\ call.text.value = Join(<<Not, Like>>)
    /\ result.value.score = FromInt(0 - 1)
    /\ result.value.sentiment = "neutral"

\* the number of non-empty values of the column analyze_column was given
ValuesPresent ==
    IF survey_data = <<>> \/ call.column \notin DOMAIN survey_data[1] THEN 0
    ELSE Cardinality({i \in 1..Len(survey_data) : Present(survey_data[i][call.column])})

ColumnAnalyzed == Called("analyze_column") /\ Returned

CountsAddUp ==
    /\ result.value.total_responses = ValuesPresent
    /\ result.value.positive + result.value.negative + result.value.neutral
           = result.value.total_responses

\* positive_pct + negative_pct + neutral_pct, added in the given grouping
PercentagesLeft(summary) ==
    DPlus(DPlus(summary.positive_pct, summary.negative_pct), summary.neutral_pct)

PercentagesRight(summary) ==
    DPlus(summary.positive_pct, DPlus(summary.negative_pct, summary.neutral_pct))

PercentagesOuter(summary) ==
    DPlus(DPlus(summary.positive_pct, summary.neutral_pct), summary.negative_pct)

PercentageSums(summary) ==
    {PercentagesLeft(summary), PercentagesRight(summary), PercentagesOuter(summary)}

\* x is 100 give or take 0.1
NearHundred(x) == DLeq(DDiv(999, 10), x) /\ DLeq(x, DDiv(1001, 10))

\* C15, as stated: the counts of analyze_column add up to total_responses,
\* the number of non-empty values scored, and the three percentages add up
\* to 100 when total_responses > 0 and to 0 when it is 0.
C15_SumsExactly ==
    ColumnAnalyzed =>
        /\ CountsAddUp
        /\ result.value.total_responses > 0 =>
               PercentagesLeft(result.value) = DFromInt(100)
        /\ result.value.total_responses = 0 =>
               PercentagesLeft(result.value) = DZero

\* C15, amended: the counts add up to total_responses, the number of
\* non-empty values scored; the three percentages, added as floats in any
\* grouping, come to 100 give or take 0.1 when total_responses > 0, and to 0
\* when it is 0.
C15_SumsNearly ==
    ColumnAnalyzed =>
        /\ CountsAddUp
        /\ result.value.total_responses > 0 =>
               \A sum \in PercentageSums(result.value) : NearHundred(sum)
        /\ result.value.total_responses = 0 =>
               PercentageSums(result.value) = {DZero}

\* one positive, one negative and one neutral response: the percentages add
\* up to a float below 100
C15_Witness ==
    /\ ColumnAnalyzed
    /\ result.value.positive = 1 /\ result.value.negative = 1
    /\ result.value.neutral = 1
    /\ DLess(PercentagesLeft(result.value), DFromInt(100))

\* C16: analyze_column returns the summary of nothing (counts 0,
\* percentages 0.0, avg_score 0.0, total_responses 0) and raises nothing when
\* the dataset is empty, when the column is no key of the first record, and
\* when the column has no non-empty value.
C16_NothingAnalyzed ==
    Called("analyze_column") /\ ValuesPresent = 0 =>
        /\ Returned
        /\ result.value.positive = 0 /\ result.value.negative = 0
        /\ result.value.neutral = 0 /\ result.value.total_responses = 0
        /\ result.value.positive_pct = DZero /\ result.value.negative_pct = DZero
        /\ result.value.neutral_pct = DZero /\ result.value.avg_score = Zero

\* records with the column, none of them with a value
C16_Witness ==
    /\ ColumnAnalyzed
    /\ Len(survey_data) >= 2
    /\ call.column = "feedback"
    /\ ValuesPresent = 0
    /\ result.value.total_responses = 0

PatternsFound == Called("find_patterns") /\ Returned

\* the place of the first pattern equal to p among the patterns
FirstPlace(patterns, p) ==
    CHOOSE k \in 1..Len(patterns) :
        patterns[k] = p /\ \A j \in 1..(k - 1) : patterns[j] # p

\* the passes of the detector in the order in which they run
PassOf(type) ==
    CASE type = "age_pattern" -> 1
      [] type = "gender_pattern" -> 2
      [] type = "regional_pattern" -> 3
      [] type = "education_pattern" -> 4
      [] type = "correlation_pattern" -> 5
      [] type = "combination_pattern" -> 6
      [] type = "outlier_pattern" -> 7

\* found holds the patterns detected, each as often as it was detected
SamePatterns(found, detected) ==
    /\ Len(found) = Len(detected)
    /\ \A k \in 1..Len(detected) :
           CountOf(found, detected[k]) = CountOf(detected, detected[k])

\* the patterns found are sorted by confidence, highest first, and two of
\* one confidence are in the order of the passes and of their detection
KeepsOrder(found, detected) ==
    \A i, j \in 1..Len(found) :
        i < j =>
            /\ DLeq(found[j].confidence, found[i].confidence)
            /\ found[i].confidence = found[j].confidence =>
                   /\ PassOf(found[i].type) <= PassOf(found[j].type)
                   /\ FirstPlace(detected, found[i]) <= FirstPlace(detected, found[j])

\* C17: the list find_patterns returns holds the patterns detected, sorted
\* by confidence in non-increasing order; two patterns of one confidence
\* keep the order in which they were detected, that of the passes (age,
\* gender, region, education, correlation, combination, outlier) and of the
\* columns within a pass; an empty dataset gives the empty list.
C17_SortedByConfidence ==
    PatternsFound =>
        /\ survey_data = <<>> => result.value = <<>>
        /\ SamePatterns(result.value, DetectedPatterns(survey_data, columns))
        /\ KeepsOrder(result.value, DetectedPatterns(survey_data, columns))

\* find_patterns returned patterns of three passes, two of them of one
\* confidence and a third of a lower one
C17_Witness ==
    /\ PatternsFound
    /\ \E i, j, k \in 1..Len(result.value) :
           /\ i < j /\ j < k
           /\ result.value[i].confidence = result.value[j].confidence
           /\ PassOf(result.value[i].type) < PassOf(result.value[j].type)
           /\ DLess(result.value[k].confidence, result.value[j].confidence)

PatternTypes ==
    {"age_pattern", "gender_pattern", "regional_pattern", "education_pattern",
     "correlation_pattern", "combination_pattern", "outlier_pattern"}

\* C18: every pattern find_patterns returns has a confidence from 0 to 100
\* and one of the seven type tags.
C18_ConfidenceAndType ==
    PatternsFound =>
        \A k \in 1..Len(result.value) :
            /\ result.value[k].type \in PatternTypes
            /\ DLeq(DZero, result.value[k].confidence)
            /\ DLeq(result.value[k].confidence, DFromInt(100))

\* find_patterns returned a combination pattern of a combination that more
\* than half of the records show, and a correlation pattern
C18_Witness ==
    /\ PatternsFound
    /\ \E k \in 1..Len(result.value) :
           /\ result.value[k].type = "combination_pattern"
           /\ DLess(DFromInt(50), result.value[k].percentage)
    /\ \E k \in 1..Len(result.value) : result.value[k].type = "correlation_pattern"

\* the columns of the dataset that are no demographic column
QuestionColumns ==
    {column \in Range(columns) : column \notin {"age", "gender", "region", "education"}}

\* the records that hold the value in the column
Holding(column, value) ==
    {k \in 1..Len(survey_data) : Get(survey_data[k], column) = value}

\* the records with a non-empty value in the column
Answered(column) ==
    {k \in 1..Len(survey_data) : Get(survey_data[k], column) \notin {None, <<>>}}

\* the values of the column that at least one record and at most 5% of the
\* records with a non-empty value hold
RareValues(column) ==
    {value \in {Get(survey_data[k], column) : k \in Answered(column)} :
        /\ Cardinality(Holding(column, value)) >= 1
        /\ Cardinality(Holding(column, value)) * 100 <= 5 * Cardinality(Answered(column))}

\* the places of the outlier patterns of the column in the list returned
OutlierPatternsOf(column) ==
    {k \in 1..Len(result.value) :
        /\ result.value[k].type = "outlier_pattern"
        /\ result.value[k].description = OutlierResponsesText \o ColumnChars[column]}

\* the pattern lists the rare values of the column, each once, with its
\* count and its percentage
ListsRareValues(pattern, column) ==
    /\ pattern.confidence = DFromInt(70)
    /\ Len(pattern.outliers) = Cardinality(RareValues(column))
    /\ {pattern.outliers[k].value : k \in 1..Len(pattern.outliers)} = RareValues(column)
    /\ \A k \in 1..Len(pattern.outliers) :
           /\ pattern.outliers[k].count
                  = Cardinality(Holding(column, pattern.outliers[k].value))
           /\ pattern.outliers[k].percentage
                  = DTimesHundred(DDiv(pattern.outliers[k].count,
                                       Cardinality(Answered(column))))

\* the non-empty values of the column are n times 'A' and once 'B'
OnceBAmongA(column, n) ==
    /\ Cardinality(Answered(column)) = n + 1
    /\ Cardinality(Holding(column, <<"A">>)) = n
    /\ Cardinality(Holding(column, <<"B">>)) = 1

\* C19: for every column that is no demographic column the list returned
\* holds one outlier pattern, of confidence 70, when some value has a count
\* of at least 1 and at most 5% of the non-empty values of the column, and
\* the pattern lists just these values with count and percentage; it holds
\* no outlier pattern of the column otherwise, and none of another column.
\* With 20 'A' and one 'B' the pattern lists B and not A; with 10 'A' and
\* one 'B' there is no outlier pattern.
C19_Outliers ==
    PatternsFound =>
        /\ \A column \in QuestionColumns :
               /\ RareValues(column) = {} => OutlierPatternsOf(column) = {}
               /\ RareValues(column) # {} =>
                      /\ Cardinality(OutlierPatternsOf(column)) = 1
                      /\ \A k \in OutlierPatternsOf(column) :
                             ListsRareValues(result.value[k], column)
               /\ OnceBAmongA(column, 20) =>
                      \E k \in OutlierPatternsOf(column) :
                          {result.value[k].outliers[o].value :
                               o \in 1..Len(result.value[k].outliers)} = {<<"B">>}
               /\ OnceBAmongA(column, 10) => OutlierPatternsOf(column) = {}
        /\ \A k \in 1..Len(result.value) :
               result.value[k].type = "outlier_pattern" =>
                   \E column \in QuestionColumns : k \in OutlierPatternsOf(column)

\* find_patterns returned the outlier pattern of a column with 20 'A' and
\* one 'B', where a record has no value in another column
C19_Witness ==
    /\ PatternsFound
    /\ \E column \in QuestionColumns :
           /\ OnceBAmongA(column, 20)
           /\ OutlierPatternsOf(column) # {}
    /\ \E column \in QuestionColumns :
           Cardinality(Answered(column)) < Len(survey_data)

\* the step leaves every record and value of the dataset as it was
DatasetKept == survey_data' = survey_data /\ columns' = columns

\* a call made again returned what it returned when it was made before
RepeatsAgree ==
    \A i, j \in 1..Len(answers.calls) :
        (i < j /\ answers.calls[i].call.op = answers.calls[j].call.op) =>
            (answers.calls[i].call = answers.calls[j].call =>
                 answers.calls[i].result = answers.calls[j].result)

DataCleaned == Called("_clean_and_validate_data") /\ Returned /\ ~result.value.is_none

\* a non-empty text without a blank at either end
TrimmedText(v) == v # None /\ v # <<>> /\ Strip(v) = v

\* the raw value is empty or a word for "not available", whatever its case
NotAvailable(raw) ==
    raw = <<>> \/ StrLower(raw) \in {<<"n", "a">>, <<"n", "/", "a">>,
                                     <<"n", "u", "l", "l">>, <<"n", "o", "n", "e">>}

\* C21: in every record _clean_and_validate_data returns, the value of
\* every column is absent (None) or a non-empty text without a blank at
\* either end, and a raw value that is empty or 'na', 'n/a', 'null' or
\* 'none' in any case has become absent.  (No row of the tables given is
\* dropped, so the records returned are the rows given, in order.)
C21_CleanValues ==
    DataCleaned =>
        /\ Len(result.value.rows) = Len(call.data)
        /\ \A i \in 1..Len(result.value.rows) :
               \A column \in DOMAIN result.value.rows[i] :
                   /\ result.value.rows[i][column] = None \/ TrimmedText(result.value.rows[i][column])
                   /\ (call.data[i][column] # None /\ NotAvailable(call.data[i][column])) =>
                          result.value.rows[i][column] = None

(***************************************************************************)
(* The buckets of the demographic passes as the specification describes    *)
(* them, on the records of the dataset.                                    *)
(***************************************************************************)
Records == 1..Len(survey_data)

ValueAt(k, column) == Get(survey_data[k], column)

HasValue(k, column) == ValueAt(k, column) \notin {None, <<>>}

\* the six age buckets, by name
BucketNames ==
    <<<<"1", "8", "-", "2", "5">>, <<"2", "6", "-", "3", "5">>,
      <<"3", "6", "-", "4", "5">>, <<"4", "6", "-", "5", "5">>,
      <<"5", "6", "-", "6", "5">>, <<"6", "5", "+">>>>

\* the bucket with the range that holds the age, None below 18
BucketOfAge(age) ==
    IF age < 18 THEN None
    ELSE IF age <= 25 THEN BucketNames[1]
    ELSE IF age <= 35 THEN BucketNames[2]
    ELSE IF age <= 45 THEN BucketNames[3]
    ELSE IF age <= 55 THEN BucketNames[4]
    ELSE IF age <= 65 THEN BucketNames[5]
    ELSE BucketNames[6]

\* the text with the first letter of every word in upper case and its
\* other letters in lower case, a word being a run of letters
TitleCased(text) ==
    [i \in 1..Len(text) |->
        IF i = 1 THEN UpperChar(text[i])
        ELSE IF LowerChar(text[i - 1]) \in Range(Lower) THEN LowerChar(text[i])
        ELSE UpperChar(text[i])]

\* the bucket of record k in the pass over age, gender, region or
\* education: the age bucket of a digit string, the trimmed and
\* title-cased value of another field, None for a record in no bucket
BucketOf(kind, k) ==
    IF ~HasValue(k, kind) THEN None
    ELSE IF kind = "age"
    THEN IF AllDigits(ValueAt(k, kind)) THEN BucketOfAge(DigitsValue(ValueAt(k, kind), 0))
         ELSE None
    ELSE IF Strip(ValueAt(k, kind)) = <<>> THEN None
    ELSE TitleCased(Strip(ValueAt(k, kind)))

BucketKeys(kind) == {BucketOf(kind, k) : k \in Records} \ {None}

Members(kind, key) == {k \in Records : BucketOf(kind, k) = key}

\* the records of the bucket with a non-empty response in the column
Responders(kind, key, column) == {k \in Members(kind, key) : HasValue(k, column)}

\* how many records of the set hold the response of record k
Tally(responders, column, k) ==
    Cardinality({j \in responders : ValueAt(j, column) = ValueAt(k, column)})

\* the first record, in the order of the dataset, among those of the set
\* whose response no response of the set outnumbers
FirstOfMostFrequent(responders, column) ==
    CHOOSE k \in responders :
        /\ \A j \in responders : Tally(responders, column, j) <= Tally(responders, column, k)
        /\ \A j \in responders :
               (j < k) => Tally(responders, column, j) < Tally(responders, column, k)

\* the most frequent non-empty response of a bucket that has one
Favourite(kind, key, column) ==
    ValueAt(FirstOfMostFrequent(Responders(kind, key, column), column), column)

\* the buckets that have the response as their most frequent one
SharingBuckets(kind, column, response) ==
    {key \in BucketKeys(kind) :
        /\ Responders(kind, key, column) # {}
        /\ Favourite(kind, key, column) = response}

\* the non-empty responses of the column
ResponsesIn(column) == {ValueAt(k, column) : k \in {j \in Records : HasValue(j, column)}}

TypeOfPass(kind) ==
    CASE kind = "age" -> "age_pattern"
      [] kind = "gender" -> "gender_pattern"
      [] kind = "region" -> "regional_pattern"
      [] kind = "education" -> "education_pattern"

WeightOf(kind) == IF kind = "region" THEN 25 ELSE 20

CapOf(kind) == CASE kind = "age" -> 90 [] kind = "region" -> 85 [] kind = "education" -> 80

\* the buckets a pattern of the pass lists
Affected(kind, pattern) ==
    CASE kind = "age" -> Range(pattern.affected_groups)
      [] kind = "region" -> Range(pattern.affected_regions)
      [] kind = "education" -> Range(pattern.affected_education_levels)

\* the text ends with the ending
EndsWith(text, ending) ==
    /\ Len(text) >= Len(ending)
    /\ SubSeq(text, Len(text) - Len(ending) + 1, Len(text)) = ending

\* the places in the list returned of the patterns of the pass about the
\* response to the column
PatternsAbout(kind, column, response) ==
    {k \in 1..Len(result.value) :
        /\ result.value[k].type = TypeOfPass(kind)
        /\ result.value[k].response = response
        /\ EndsWith(result.value[k].description,
                    <<"'", " ", "t", "o", " ">> \o ColumnChars[column])}

\* the pattern is that of the sharing buckets
IsPatternOf(kind, pattern, sharing) ==
    /\ pattern.confidence
           = DFromInt(IF WeightOf(kind) * Cardinality(sharing) < CapOf(kind)
                      THEN WeightOf(kind) * Cardinality(sharing)
                      ELSE CapOf(kind))
    /\ pattern.sample_size = Cardinality({k \in Records : BucketOf(kind, k) \in sharing})
    /\ Affected(kind, pattern) = sharing

\* one pattern for at least 2 sharing buckets, none for fewer
OnePatternIfShared(kind, found, sharing) ==
    IF Cardinality(sharing) >= 2
    THEN /\ Cardinality(found) = 1
         /\ \A k \in found : IsPatternOf(kind, result.value[k], sharing)
    ELSE found = {}

SharingPasses == {"age", "region", "education"}

\* C22: in the age, region and education passes, for every column that is
\* no demographic column and every response, the list returned holds one
\* pattern when the response is the most frequent non-empty response of at
\* least 2 buckets and none otherwise; the pattern has the confidence
\* min(cap, weight * number of sharing buckets), with weight and cap 20
\* and 90 for age, 25 and 85 for region, 20 and 80 for education, and as
\* sample_size the number of records of the sharing buckets; there is no
\* other pattern of these passes.
C22_SharedResponses ==
    PatternsFound =>
        /\ \A kind \in SharingPasses, column \in QuestionColumns :
               \A response \in ResponsesIn(column) :
                   OnePatternIfShared(kind, PatternsAbout(kind, column, response),
                                      SharingBuckets(kind, column, response))
        /\ \A k \in 1..Len(result.value) :
               result.value[k].type \in {TypeOfPass(kind) : kind \in SharingPasses} =>
                   \E kind \in SharingPasses, column \in QuestionColumns :
                       \E response \in ResponsesIn(column) :
                           k \in PatternsAbout(kind, column, response)

\* find_patterns returned an age pattern of five or more buckets, where the
\* cap applies, and a regional pattern of two regions, where it does not,
\* one of them with more records than buckets
C22_Witness ==
    /\ PatternsFound
    /\ \E k \in 1..Len(result.value) :
           /\ result.value[k].type = "age_pattern"
           /\ Len(result.value[k].affected_groups) >= 5
           /\ result.value[k].confidence = DFromInt(90)
    /\ \E k \in 1..Len(result.value) :
           /\ result.value[k].type = "regional_pattern"
           /\ Len(result.value[k].affected_regions) = 2
           /\ result.value[k].confidence = DFromInt(50)
           /\ result.value[k].sample_size > 2

\* the buckets of the pass with a non-empty response in the column
RespondingBuckets(kind, column) ==
    {key \in BucketKeys(kind) : Responders(kind, key, column) # {}}

\* the most frequent responses of these buckets
Favourites(kind, column) ==
    {Favourite(kind, key, column) : key \in RespondingBuckets(kind, column)}

\* the places in the list returned of the gender patterns of the column
GenderPatternsOf(column) ==
    {k \in 1..Len(result.value) :
        /\ result.value[k].type = "gender_pattern"
        /\ result.value[k].description
               = GenderDifferencesText \o ColumnChars[column] \o ResponsesText}

\* one pattern of confidence 75 when the buckets differ, none otherwise
OnePatternIfDifferent(found, buckets, favourites) ==
    IF Cardinality(buckets) >= 2 /\ Cardinality(favourites) > 1
    THEN /\ Cardinality(found) = 1
         /\ \A k \in found : result.value[k].confidence = DFromInt(75)
    ELSE found = {}

\* C23: for every column that is no demographic column the list returned
\* holds one gender_pattern, of confidence 75, when at least 2 gender
\* buckets (by the trimmed, title-cased gender) have a non-empty response
\* in the column and their most frequent responses are not all the same;
\* it holds none when they agree or fewer than 2 buckets have a response,
\* and no gender_pattern of another column.
C23_GenderDifferences ==
    PatternsFound =>
        /\ \A column \in QuestionColumns :
               OnePatternIfDifferent(GenderPatternsOf(column),
                                     RespondingBuckets("gender", column),
                                     Favourites("gender", column))
        /\ \A k \in 1..Len(result.value) :
               result.value[k].type = "gender_pattern" =>
                   \E column \in QuestionColumns : k \in GenderPatternsOf(column)

\* find_patterns returned the gender pattern of a column on a dataset that
\* has the same gender written in two ways
C23_Witness ==
    /\ PatternsFound
    /\ GenderPatternsOf("q1") # {}
    /\ \E j, k \in Records :
           /\ ValueAt(j, "gender") # ValueAt(k, "gender")
           /\ BucketOf("gender", j) = BucketOf("gender", k)
           /\ BucketOf("gender", j) # None

\* the records with a non-empty value in both columns
AnsweringBoth(col1, col2) == {k \in Records : HasValue(k, col1) /\ HasValue(k, col2)}

\* those of them whose two responses are related
RelatedIn(col1, col2) ==
    {k \in AnsweringBoth(col1, col2) :
        AreResponsesRelated(Strip(ValueAt(k, col1)), Strip(ValueAt(k, col2)))}

\* the relatedness ratio of the columns is above 0.6
StronglyRelated(col1, col2) ==
    /\ AnsweringBoth(col1, col2) # {}
    /\ 10 * Cardinality(RelatedIn(col1, col2)) > 6 * Cardinality(AnsweringBoth(col1, col2))

\* the places in the list returned of the correlation patterns of the pair
CorrelationPatternsOf(col1, col2) ==
    {k \in 1..Len(result.value) :
        /\ result.value[k].type = "correlation_pattern"
        /\ Range(result.value[k].columns) = {col1, col2}}

\* min(90, ratio * 100)
ConfidenceOfRatio(hundredfold) ==
    IF DLess(DFromInt(90), hundredfold) THEN DFromInt(90) ELSE hundredfold

\* C24: for every pair of distinct columns that are no demographic columns
\* the list returned holds a correlation_pattern of the pair exactly when
\* the number of records with related responses, divided by the number of
\* records with a non-empty value in both columns, is above 0.6, and the
\* confidence of the pattern is min(90, ratio * 100).
C24_Correlation ==
    PatternsFound =>
        \A col1, col2 \in QuestionColumns :
            col1 # col2 =>
                /\ StronglyRelated(col1, col2) <=> CorrelationPatternsOf(col1, col2) # {}
                /\ \A k \in CorrelationPatternsOf(col1, col2) :
                       result.value[k].confidence
                           = ConfidenceOfRatio(DTimesHundred(
                                 DDiv(Cardinality(RelatedIn(col1, col2)),
                                      Cardinality(AnsweringBoth(col1, col2)))))

\* the sorted 'column:value' tokens of the non-empty values of record k
CombinationAt(k) == Combination(survey_data[k], columns)

\* the records that show the combination
Showing(combination) == {k \in Records : CombinationAt(k) = combination}

\* the combinations of the dataset, that of a record without a value apart
Combinations == {CombinationAt(k) : k \in Records} \ {<<>>}

\* the combinations that more records show
MoreFrequent(combination) ==
    {other \in Combinations :
        Cardinality(Showing(other)) > Cardinality(Showing(combination))}

\* the combinations that at least as many records show
AsFrequent(combination) ==
    {other \in Combinations :
        Cardinality(Showing(other)) >= Cardinality(Showing(combination))}

\* more than one record and more than 10% of the records show it
Reported(combination) ==
    /\ Cardinality(Showing(combination)) > 1
    /\ 10 * Cardinality(Showing(combination)) > Len(survey_data)

CombinationPatterns ==
    {k \in 1..Len(result.value) : result.value[k].type = "combination_pattern"}

\* min(85, percentage * 2)
ConfidenceOfShare(percentage) ==
    IF DLess(DFromInt(85), DPlus(percentage, percentage)) THEN DFromInt(85)
    ELSE DPlus(percentage, percentage)

\* the pattern is that of a combination among the 3 most frequent that is
\* reported, with the share of the records that show it
IsCombinationPattern(pattern) ==
    /\ pattern.combination \in Combinations
    /\ Cardinality(MoreFrequent(pattern.combination)) < 3
    /\ Reported(pattern.combination)
    /\ pattern.sample_size = Cardinality(Showing(pattern.combination))
    /\ pattern.confidence
           = ConfidenceOfShare(DTimesHundred(DDiv(pattern.sample_size, Len(survey_data))))

\* C25: the list returned holds at most 3 combination patterns, each of
\* another combination of sorted 'column:value' tokens among the 3 most
\* frequent, shown by more than one record and by more than 10% of the
\* records of the dataset, with confidence min(85, percentage * 2) and
\* sample_size the count; a combination that is reported and surely among
\* the 3 most frequent has its pattern.
C25_Combinations ==
    PatternsFound =>
        /\ Cardinality(CombinationPatterns) <= 3
        /\ \A k \in CombinationPatterns : IsCombinationPattern(result.value[k])
        /\ \A j, k \in CombinationPatterns :
               result.value[j].combination = result.value[k].combination => j = k
        /\ \A combination \in Combinations :
               (Reported(combination) /\ Cardinality(AsFrequent(combination)) <= 3) =>
                   \E k \in CombinationPatterns :
                       result.value[k].combination = combination

\* the text begins with the beginning
BeginsWith(text, beginning) ==
    /\ Len(text) >= Len(beginning)
    /\ SubSeq(text, 1, Len(beginning)) = beginning

\* the token is 'column:value' of one of age, gender, region and education
IsDemographicToken(token) ==
    \E column \in {"age", "gender", "region", "education"} :
        BeginsWith(token, ColumnChars[column] \o <<":">>)

\* the pattern of one of the segment passes, of the correlation pass or of
\* the outlier pass is about columns that are none of age, gender, region and
\* education
IsAboutQuestions(pattern) ==
    CASE pattern.type \in {"age_pattern", "regional_pattern", "education_pattern"} ->
             \E column \in QuestionColumns :
                 EndsWith(pattern.description, <<"'", " ", "t", "o", " ">> \o ColumnChars[column])
      [] pattern.type = "gender_pattern" ->
             \E column \in QuestionColumns :
                 pattern.description
                     = GenderDifferencesText \o ColumnChars[column] \o ResponsesText
      [] pattern.type = "correlation_pattern" ->
             Range(pattern.columns) \subseteq QuestionColumns
      [] pattern.type = "outlier_pattern" ->
             \E column \in QuestionColumns :
                 pattern.description = OutlierResponsesText \o ColumnChars[column]
      [] OTHER -> TRUE

\* the combination of the pattern holds no token of age, gender, region or
\* education
CombinesQuestions(pattern) ==
    pattern.type = "combination_pattern" =>
        \A k \in 1..Len(pattern.combination) : ~IsDemographicToken(pattern.combination[k])

\* C26: no pass treats age, gender, region or education as a response
\* column: every segment pattern, correlation pattern and outlier pattern of
\* the list returned is about columns other than these four, and no
\* combination pattern's combination holds a token of one of the four.
C26_DemographicsApart ==
    PatternsFound =>
        \A k \in 1..Len(result.value) :
            IsAboutQuestions(result.value[k]) /\ CombinesQuestions(result.value[k])

\* chi_square_test carried the test out: the table passed the checks for
\* insufficient data
TestCarriedOut ==
    /\ Called("chi_square_test") /\ Returned
    /\ "error" \notin DOMAIN result.value

\* the statistic is strictly greater than 9.5 * df
BeyondThreshold == RLess(Rat(19 * result.value.df, 2), result.value.chi_square)

\* C27: for a table that passes the checks for insufficient data,
\* chi_square_test reports significant = true exactly when df > 0 and the
\* statistic is strictly greater than 9.5 * df; a statistic below df is never
\* significant.
C27_Threshold ==
    TestCarriedOut =>
        /\ result.value.significant = (result.value.df > 0 /\ BeyondThreshold)
        /\ RLess(result.value.chi_square, FromInt(result.value.df)) =>
               ~result.value.significant

\* a test with df > 0 and a statistic between 5 * df and 9.5 * df, which is
\* not significant
C27_Witness ==
    /\ TestCarriedOut
    /\ result.value.df > 0
    /\ RLess(FromInt(5 * result.value.df), result.value.chi_square)
    /\ ~BeyondThreshold
    /\ ~result.value.significant

\* the step is a load that succeeds
LoadSucceeds ==
    call'.op = "load_survey_data" /\ result' = Return(TRUE)

\* the step is a load that fails
LoadFails ==
    call'.op = "load_survey_data" /\ result' = Return(FALSE)

\* a dataset is kept by every step but a load that succeeds, a load that
\* fails changes nothing, and an analysis option is given the dataset
StaysAvailable ==
    /\ (~survey_data.is_none /\ ~LoadSucceeds) => survey_data' = survey_data
    /\ LoadFails => survey_data' = survey_data
    /\ (~survey_data.is_none /\ call'.op \in AnalysisOptions) =>
           result' = Return([no_data |-> FALSE, rows |-> survey_data.rows])

\* C28: in a session a dataset that was loaded stays available to the
\* analysis options 2 to 6 until a later load succeeds and replaces it: a
\* load that fails, for an empty or missing path or because load_csv rejects
\* the file, neither discards nor changes the dataset loaded earlier.
C28_StaysAvailable == [][StaysAvailable]_vars

\* several responses of the bucket tie for the highest count in the column
Tied(kind, key, column) ==
    \E j, k \in Responders(kind, key, column) :
        /\ ValueAt(j, column) # ValueAt(k, column)
        /\ Tally(Responders(kind, key, column), column, j)
               = Tally(Responders(kind, key, column), column, k)
        /\ \A i \in Responders(kind, key, column) :
               Tally(Responders(kind, key, column), column, i)
                   <= Tally(Responders(kind, key, column), column, k)

\* the gender pattern gives every bucket the response met first among the
\* most frequent ones of the bucket
GivesFirstMet(pattern, column) ==
    \A key \in DOMAIN pattern.details :
        /\ key \in RespondingBuckets("gender", column)
        /\ pattern.details[key].response = Favourite("gender", key, column)

\* the pattern of the pass lists buckets whose response met first among the
\* most frequent ones is the response of the pattern
ListsFirstMet(kind, pattern, column) ==
    \A key \in Affected(kind, pattern) :
        /\ key \in RespondingBuckets(kind, column)
        /\ Favourite(kind, key, column) = pattern.response

\* C29: in the demographic passes the response taken as the most frequent
\* one of a bucket is, among the responses that tie for the highest count,
\* the one that occurs first in the order of the dataset among the records
\* of the bucket: every gender pattern gives each of its buckets that
\* response, and every pattern of the age, region and education passes lists
\* only buckets for which that response is the response of the pattern.
C29_TiesByOrder ==
    PatternsFound =>
        /\ \A column \in QuestionColumns : \A k \in GenderPatternsOf(column) :
               GivesFirstMet(result.value[k], column)
        /\ \A kind \in {"age", "region", "education"} :
               \A column \in QuestionColumns : \A response \in ResponsesIn(column) :
                   \A k \in PatternsAbout(kind, column, response) :
                       ListsFirstMet(kind, result.value[k], column)

\* find_patterns returned a gender pattern of q1 with a bucket where two
\* responses tie, and a pattern of the age pass that lists a bucket where
\* two responses tie
C29_Witness ==
    /\ PatternsFound
    /\ \E k \in GenderPatternsOf("q1") :
           \E key \in DOMAIN result.value[k].details : Tied("gender", key, "q1")
    /\ \E response \in ResponsesIn("q1") : \E k \in PatternsAbout("age", "q1", response) :
           \E key \in Affected("age", result.value[k]) : Tied("age", key, "q1")

\* _analyze_age_patterns has built its buckets
AgesBucketed == Called("_analyze_age_patterns") /\ Returned

\* the records of the bucket, in the order of the dataset
MembersInOrder(key) ==
    EntriesAt(survey_data,
              SelectSeq(Places(survey_data), LAMBDA k : BucketOf("age", k) = key))

\* the buckets whose range takes record k
BucketsHolding(k) == {b \in 1..Len(BucketNames) : BucketOf("age", k) = BucketNames[b]}

\* C30: the age bucketing builds the six buckets 18-25, 26-35, 36-45, 46-55,
\* 56-65 and 65+; each holds, in the order of the dataset, the records whose
\* age is a digit string in its range (65 in 56-65, 66 and above in 65+), a
\* record whose age is absent, no digit string or below 18 is in no bucket,
\* no record is in two buckets and the sizes of the buckets sum to at most
\* the number of records.
C30_AgeBuckets ==
    AgesBucketed =>
        /\ Len(result.age_groups) = Len(BucketNames)
        /\ \A b \in 1..Len(BucketNames) :
               /\ result.age_groups[b].key = BucketNames[b]
               /\ result.age_groups[b].rows = MembersInOrder(BucketNames[b])
        /\ \A k \in Records : Cardinality(BucketsHolding(k)) <= 1
        /\ \A k \in Records :
               (~HasValue(k, "age") \/ ~AllDigits(ValueAt(k, "age"))
                   \/ DigitsValue(ValueAt(k, "age"), 0) < 18) => BucketsHolding(k) = {}
        /\ SumInts([b \in 1..Len(BucketNames) |-> Len(result.age_groups[b].rows)])
               <= Len(survey_data)

\* the buckets of a dataset with a record of age 65, in 56-65, and a record
\* without a bucket
C30_Witness ==
    /\ AgesBucketed
    /\ \E k \in Records : ValueAt(k, "age") = <<"6", "5">>
    /\ Len(result.age_groups[5].rows) = 1
    /\ \E k \in Records : BucketsHolding(k) = {}

====
